---- MODULE Spec2Model ----
(***************************************************************************)
(* Model of the webhook bot: intent classification of issues and PR        *)
(* comments, and the sequencing of the GitHub calls each workflow makes    *)
(* (branch, file, pull request, comment, reaction).                        *)
(*                                                                         *)
(* Strings are sequences of one-character strings, so that the string      *)
(* functions of the Go code (ToLower, Contains, HasPrefix, Split, ...) are *)
(* computed character by character.                                        *)
(***************************************************************************)
EXTENDS Integers, Sequences, FiniteSets, TLC

\* ------------------------------------------------------------------------
\* Bounds of the model
\* ------------------------------------------------------------------------

\* the numbers of the issues that are opened
Issues == {1}

\* webhook deliveries handled in one behaviour
MaxEvents == 3

\* outbound calls that fail for a reason outside the model (transport, API)
MaxFaults == 1

\* the concurrent request goroutines of the HTTP server
Handlers == {1, 2}

\* ------------------------------------------------------------------------
\* Go strings package
\* ------------------------------------------------------------------------

UpperToLower ==
    ("A" :> "a") @@ ("B" :> "b") @@ ("C" :> "c") @@ ("D" :> "d") @@ ("E" :> "e") @@
    ("F" :> "f") @@ ("G" :> "g") @@ ("H" :> "h") @@ ("I" :> "i") @@ ("J" :> "j") @@
    ("K" :> "k") @@ ("L" :> "l") @@ ("M" :> "m") @@ ("N" :> "n") @@ ("O" :> "o") @@
    ("P" :> "p") @@ ("Q" :> "q") @@ ("R" :> "r") @@ ("S" :> "s") @@ ("T" :> "t") @@
    ("U" :> "u") @@ ("V" :> "v") @@ ("W" :> "w") @@ ("X" :> "x") @@ ("Y" :> "y") @@
    ("Z" :> "z")

LowerChar(c) == IF c \in DOMAIN UpperToLower THEN UpperToLower[c] ELSE c

\* a function on 1..n as a sequence
AsSeq(f, n) == SubSeq(f, 1, n)

ToLower(s) == AsSeq([i \in 1..Len(s) |-> LowerChar(s[i])], Len(s))

HasPrefix(s, p) == Len(s) >= Len(p) /\ SubSeq(s, 1, Len(p)) = p

HasSuffix(s, p) == Len(s) >= Len(p) /\ SubSeq(s, Len(s) - Len(p) + 1, Len(s)) = p

Contains(s, sub) ==
    \E i \in 0..(Len(s) - Len(sub)) : SubSeq(s, i + 1, i + Len(sub)) = sub

TrimPrefix(s, p) == IF HasPrefix(s, p) THEN SubSeq(s, Len(p) + 1, Len(s)) ELSE s

TrimSuffix(s, p) == IF HasSuffix(s, p) THEN SubSeq(s, 1, Len(s) - Len(p)) ELSE s

\* the white space strings.TrimSpace removes, among the characters of the model
IsSpace(c) == c \in {" ", "\n", "\t", "\r"}

RECURSIVE TrimLeft(_)
TrimLeft(s) ==
    IF s # <<>> /\ IsSpace(Head(s)) THEN TrimLeft(Tail(s)) ELSE s

RECURSIVE TrimRight(_)
TrimRight(s) ==
    IF s # <<>> /\ IsSpace(s[Len(s)]) THEN TrimRight(SubSeq(s, 1, Len(s) - 1)) ELSE s

TrimSpace(s) == TrimRight(TrimLeft(s))

\* strings.ReplaceAll(s, old, new) for one-character old and new
ReplaceAll(s, old, new) ==
    AsSeq([i \in 1..Len(s) |-> IF s[i] = old THEN new ELSE s[i]], Len(s))

\* strings.IndexByte(s, c) + 1: the first position of c in s, 0 if there is none
IndexOf(s, c) ==
    IF \E i \in 1..Len(s) : s[i] = c
    THEN CHOOSE i \in 1..Len(s) : s[i] = c /\ \A j \in 1..(i - 1) : s[j] # c
    ELSE 0

\* strings.LastIndexByte(s, c) + 1
LastIndexOf(s, c) ==
    IF \E i \in 1..Len(s) : s[i] = c
    THEN CHOOSE i \in 1..Len(s) : s[i] = c /\ \A j \in (i + 1)..Len(s) : s[j] # c
    ELSE 0

\* strings.Split(s, sep) for a one-character separator: always at least one piece
RECURSIVE Split(_, _)
Split(s, sep) ==
    LET i == IndexOf(s, sep)
    IN  IF i = 0 THEN <<s>>
        ELSE <<SubSeq(s, 1, i - 1)>> \o Split(SubSeq(s, i + 1, Len(s)), sep)

\* strings.Join(parts, sep) for a one-character separator
RECURSIVE Join(_, _)
Join(parts, sep) ==
    IF parts = <<>> THEN <<>>
    ELSE IF Len(parts) = 1 THEN parts[1]
    ELSE parts[1] \o <<sep>> \o Join(Tail(parts), sep)

\* strings.SplitN(s, sep, 2): cut at the first separator, if there is one
SplitN2(s, sep) ==
    LET i == IndexOf(s, sep)
    IN  IF i = 0 THEN <<s>> ELSE <<SubSeq(s, 1, i - 1), SubSeq(s, i + 1, Len(s))>>

\* filepath.Base for a non-empty path without trailing slash
Base(path) == SubSeq(path, LastIndexOf(path, "/") + 1, Len(path))

\* filepath.Join of clean, non-empty elements
PathJoin(parts) == Join(parts, "/")

\* fmt.Sprintf("%d", n) for 0 <= n <= 99
Digit == <<"0", "1", "2", "3", "4", "5", "6", "7", "8", "9">>

Itoa(n) ==
    IF n < 10 THEN <<Digit[n + 1]>> ELSE <<Digit[(n \div 10) + 1], Digit[(n % 10) + 1]>>

\* fmt.Sprintf("%t", b)
FormatBool(b) == IF b THEN <<"t","r","u","e">> ELSE <<"f","a","l","s","e">>

\* ------------------------------------------------------------------------
\* pkg/shared_utils
\* ------------------------------------------------------------------------

LowerLetters ==
    {"a", "b", "c", "d", "e", "f", "g", "h", "i", "j", "k", "l", "m",
     "n", "o", "p", "q", "r", "s", "t", "u", "v", "w", "x", "y", "z"}

IsRuneAlphabetical(r) == r \in LowerLetters

IsRuneNumerical(r) == r \in {"0", "1", "2", "3", "4", "5", "6", "7", "8", "9"}

IsRuneDashCharacter(r) == r = "-"

\* ------------------------------------------------------------------------
\* pkg/bot_blog/blog.go
\* ------------------------------------------------------------------------

\* "pkg/blog_markdown_content/drafts"
DraftsDir == <<"p","k","g","/","b","l","o","g","_","m","a","r","k","d","o","w","n","_","c","o","n","t","e","n","t","/","d","r","a","f","t","s">>

\* "pkg/blog_markdown_content/posts"
PostsDir == <<"p","k","g","/","b","l","o","g","_","m","a","r","k","d","o","w","n","_","c","o","n","t","e","n","t","/","p","o","s","t","s">>

\* ".md"
MdExt == <<".","m","d">>

\* the value of time.Now().Format(...) at the moment NewPost runs
Today == <<"D">>

generateKey(title) ==
    SelectSeq(ReplaceAll(ToLower(title), " ", "-"),
              LAMBDA r : IsRuneDashCharacter(r) \/ IsRuneNumerical(r)
                         \/ IsRuneDashCharacter(r))

RECURSIVE TrimEach(_)
TrimEach(parts) ==
    IF parts = <<>> THEN <<>> ELSE <<TrimSpace(Head(parts))>> \o TrimEach(Tail(parts))

\* the first line of the body that, trimmed and lower-cased, begins with "tags:"
RECURSIVE FirstTagsLine(_)
FirstTagsLine(lines) ==
    IF lines = <<>> THEN <<>>
    ELSE IF HasPrefix(ToLower(TrimSpace(Head(lines))), <<"t","a","g","s",":">>) THEN <<Head(lines)>>
    ELSE FirstTagsLine(Tail(lines))

ParseIssueForRequest(title, body) ==
    LET cleanTitle == TrimSpace(TrimPrefix(title, <<"B","l","o","g"," ","p","o","s","t",":">>))
        found == IF Contains(ToLower(body), <<"t","a","g","s",":">>)
                 THEN FirstTagsLine(Split(body, "\n")) ELSE <<>>
        extra == IF found = <<>> THEN <<>>
                 ELSE TrimEach(Split(TrimPrefix(ToLower(found[1]), <<"t","a","g","s",":">>), ","))
    IN  [Draft |-> TRUE,
         Tags  |-> <<<<"a","i","-","g","e","n","e","r","a","t","e","d">>>> \o extra,
         Title |-> cleanTitle,
         Topic |-> body]

NewPost(title, topic, tags, isDraft) ==
    [Content   |-> <<>>,
     CreatedAt |-> Today,
     IsDraft   |-> isDraft,
     Key       |-> generateKey(title),
     Language  |-> <<"e","n">>,
     Summary   |-> <<"A"," ","c","a","s","u","a","l"," ","e","x","p","l","o","r","a","t","i","o","n"," ","o","f"," ">> \o topic,
     Tags      |-> tags,
     Title     |-> title,
     Type      |-> <<"p","o","s","t">>]

GetFilePath(p) ==
    IF p.IsDraft THEN PathJoin(<<DraftsDir, p.Key \o MdExt>>)
    ELSE PathJoin(<<PostsDir, p.Key \o MdExt>>)

RECURSIVE TagLines(_)
TagLines(tags) ==
    IF tags = <<>> THEN <<>>
    ELSE <<" "," ","-"," ">> \o Head(tags) \o <<"\n">> \o TagLines(Tail(tags))

GenerateMarkdown(p) ==
    <<"-","-","-","\n">>
    \o <<"c","r","e","a","t","e","d","_","a","t",":"," ">> \o p.CreatedAt \o <<"\n">>
    \o <<"i","s","_","d","r","a","f","t",":"," ">> \o FormatBool(p.IsDraft) \o <<"\n">>
    \o <<"k","e","y",":"," ">> \o p.Key \o <<"\n">>
    \o <<"l","a","n","g","u","a","g","e",":"," ">> \o p.Language \o <<"\n">>
    \o <<"s","u","m","m","a","r","y",":"," ">> \o p.Summary \o <<"\n">>
    \o <<"t","a","g","s",":","\n">>
    \o TagLines(p.Tags)
    \o <<"t","i","t","l","e",":"," ">> \o p.Title \o <<"\n">>
    \o <<"t","y","p","e",":"," ">> \o p.Type \o <<"\n">>
    \o <<"-","-","-","\n","\n">>
    \o p.Content

\* ------------------------------------------------------------------------
\* pkg/bot_code/code.go
\* ------------------------------------------------------------------------

\* the mutant is a loop that leaves at the first line that gives a path
RECURSIVE TargetPathOf_FirstLine(_, _)
TargetPathOf_FirstLine(lines, acc) ==
    IF lines = <<>> THEN acc
    ELSE LET line == Head(lines)
             lowerLine == ToLower(TrimSpace(line))
             parts == SplitN2(line, ":")
         IN  IF (HasPrefix(lowerLine, <<"f","i","l","e",":">>) \/ HasPrefix(lowerLine, <<"p","a","t","h",":">>))
                /\ Len(parts) = 2
             THEN TrimSpace(parts[2])
             ELSE TargetPathOf_FirstLine(Tail(lines), acc)

\* every line of the body that begins with "file:" or "path:" and has a colon
\* overwrites the target path: the last one wins
RECURSIVE TargetPathOf(_, _)
TargetPathOf(lines, acc) ==
    IF lines = <<>> THEN acc
    ELSE LET line == Head(lines)
             lowerLine == ToLower(TrimSpace(line))
             parts == SplitN2(line, ":")
         IN  IF (HasPrefix(lowerLine, <<"f","i","l","e",":">>) \/ HasPrefix(lowerLine, <<"p","a","t","h",":">>))
                /\ Len(parts) = 2
             THEN TargetPathOf(Tail(lines), TrimSpace(parts[2]))
             ELSE TargetPathOf(Tail(lines), acc)

ParseIssueForCodeRequest(title, body) ==
    LET cleanTitle == TrimSpace(TrimPrefix(TrimSpace(TrimPrefix(title, <<"C","o","d","e",":">>)),
                                           <<"c","o","d","e",":">>))
        lowerBody == ToLower(body)
    IN  [Title       |-> cleanTitle,
         Description |-> body,
         FileType    |-> <<"g","o">>,
         Tags        |-> <<<<"a","i","-","g","e","n","e","r","a","t","e","d">>>>,
         TargetPath  |-> IF Contains(lowerBody, <<"f","i","l","e",":">>) \/ Contains(lowerBody, <<"p","a","t","h",":">>)
                         THEN TargetPathOf(Split(body, "\n"), <<>>) ELSE <<>>]

generateFilename(title) ==
    SelectSeq(ReplaceAll(ToLower(title), " ", "_"),
              LAMBDA r : IsRuneAlphabetical(r) \/ IsRuneNumerical(r)
                         \/ IsRuneDashCharacter(r))
    \o <<".","g","o">>

\* the mutant tries the keyword "test" first
DetermineTargetPath_TestFirst(request) ==
    LET title == ToLower(request.Title)
    IN  IF request.TargetPath # <<>> THEN request.TargetPath
        ELSE IF Contains(title, <<"t","e","s","t">>) THEN <<"p","k","g","/","b","o","t","-","c","o","d","e","/","c","o","d","e","_","t","e","s","t",".","g","o">>
        ELSE IF Contains(title, <<"h","a","n","d","l","e","r">>) THEN <<"p","k","g","/","b","o","t","-","c","o","d","e","/","h","a","n","d","l","e","r","s",".","g","o">>
        ELSE IF Contains(title, <<"c","l","i","e","n","t">>) THEN <<"p","k","g","/","b","o","t","-","c","o","d","e","/","c","l","i","e","n","t",".","g","o">>
        ELSE PathJoin(<<<<"p","k","g">>, <<"b","o","t","-","c","o","d","e">>, generateFilename(request.Title)>>)

\* the mutant looks at the keywords of the title before the explicit path
DetermineTargetPath_KeywordFirst(request) ==
    LET title == ToLower(request.Title)
    IN  IF Contains(title, <<"h","a","n","d","l","e","r">>) THEN <<"p","k","g","/","b","o","t","-","c","o","d","e","/","h","a","n","d","l","e","r","s",".","g","o">>
        ELSE IF Contains(title, <<"c","l","i","e","n","t">>) THEN <<"p","k","g","/","b","o","t","-","c","o","d","e","/","c","l","i","e","n","t",".","g","o">>
        ELSE IF Contains(title, <<"t","e","s","t">>) THEN <<"p","k","g","/","b","o","t","-","c","o","d","e","/","c","o","d","e","_","t","e","s","t",".","g","o">>
        ELSE IF request.TargetPath # <<>> THEN request.TargetPath
        ELSE PathJoin(<<<<"p","k","g">>, <<"b","o","t","-","c","o","d","e">>, generateFilename(request.Title)>>)

DetermineTargetPath(request) ==
    LET title == ToLower(request.Title)
    IN  IF request.TargetPath # <<>> THEN request.TargetPath
        ELSE IF Contains(title, <<"h","a","n","d","l","e","r">>) THEN <<"p","k","g","/","b","o","t","-","c","o","d","e","/","h","a","n","d","l","e","r","s",".","g","o">>
        ELSE IF Contains(title, <<"c","l","i","e","n","t">>) THEN <<"p","k","g","/","b","o","t","-","c","o","d","e","/","c","l","i","e","n","t",".","g","o">>
        ELSE IF Contains(title, <<"t","e","s","t">>) THEN <<"p","k","g","/","b","o","t","-","c","o","d","e","/","c","o","d","e","_","t","e","s","t",".","g","o">>
        ELSE PathJoin(<<<<"p","k","g">>, <<"b","o","t","-","c","o","d","e">>, generateFilename(request.Title)>>)

\* ------------------------------------------------------------------------
\* pkg/bot_code/handlers.go: the classifiers and helpers of the two handlers
\* ------------------------------------------------------------------------

isBlogRequest(title) == Contains(ToLower(title), <<"b","l","o","g"," ","p","o","s","t">>)

isCodeRequest(title) ==
    LET lowerTitle == ToLower(title)
    IN  \/ Contains(lowerTitle, <<"c","o","d","e",":">>)
        \/ Contains(lowerTitle, <<"a","d","d"," ","f","e","a","t","u","r","e">>)
        \/ Contains(lowerTitle, <<"r","e","f","a","c","t","o","r">>)
        \/ Contains(lowerTitle, <<"i","m","p","l","e","m","e","n","t">>)

BlogChangeWords ==
    {<<"c","a","n"," ","y","o","u">>, <<"c","o","u","l","d"," ","y","o","u">>, <<"p","l","e","a","s","e">>, <<"a","d","d">>, <<"r","e","m","o","v","e">>, <<"c","h","a","n","g","e">>,
     <<"u","p","d","a","t","e">>, <<"m","a","k","e"," ","i","t">>, <<"m","a","k","e"," ","t","h","i","s">>, <<"m","o","r","e">>, <<"l","e","s","s">>, <<"f","i","x">>,
     <<"i","m","p","r","o","v","e">>, <<"r","e","w","r","i","t","e">>}

CodeChangeWords == BlogChangeWords \cup {<<"r","e","f","a","c","t","o","r">>}

blogIsChangeRequest(comment) ==
    \E word \in BlogChangeWords : Contains(ToLower(comment), word)

codeIsChangeRequest(comment) ==
    \E word \in CodeChangeWords : Contains(ToLower(comment), word)

hasDraftStatusChange(comment) ==
    LET lowerComment == ToLower(comment)
    IN  \/ Contains(lowerComment, <<"p","u","b","l","i","s","h">>)
        \/ Contains(lowerComment, <<"r","e","a","d","y"," ","t","o"," ","p","u","b","l","i","s","h">>)
        \/ Contains(lowerComment, <<"m","o","v","e"," ","t","o"," ","d","r","a","f","t">>)
        \/ Contains(lowerComment, <<"m","a","k","e"," ","i","t"," ","a"," ","d","r","a","f","t">>)

\* the mutant lets a draft phrase decide before "publish" does
shouldPublish_DraftFirst(comment) ==
    LET lowerComment == ToLower(comment)
    IN  /\ ~Contains(lowerComment, <<"m","o","v","e"," ","t","o"," ","d","r","a","f","t">>)
        /\ ~Contains(lowerComment, <<"m","a","k","e"," ","i","t"," ","a"," ","d","r","a","f","t">>)

shouldPublish(comment) ==
    LET lowerComment == ToLower(comment)
    IN  \/ Contains(lowerComment, <<"p","u","b","l","i","s","h">>)
        \/ Contains(lowerComment, <<"r","e","a","d","y"," ","t","o"," ","p","u","b","l","i","s","h">>)

\* the mutant rewrites every line that begins with "is_draft:"
updateDraftStatus_EveryLine(content, isDraft) ==
    LET lines == Split(content, "\n")
    IN  Join([i \in DOMAIN lines |->
                IF HasPrefix(lines[i], <<"i","s","_","d","r","a","f","t",":">>)
                THEN <<"i","s","_","d","r","a","f","t",":"," ">> \o FormatBool(isDraft) ELSE lines[i]], "\n")

\* the first line that begins with "is_draft:" is rewritten, the others are kept
RECURSIVE RewriteFirstDraftLine(_, _)
RewriteFirstDraftLine(lines, isDraft) ==
    IF lines = <<>> THEN <<>>
    ELSE IF HasPrefix(Head(lines), <<"i","s","_","d","r","a","f","t",":">>)
         THEN <<<<"i","s","_","d","r","a","f","t",":"," ">> \o FormatBool(isDraft)>> \o Tail(lines)
         ELSE <<Head(lines)>> \o RewriteFirstDraftLine(Tail(lines), isDraft)

updateDraftStatus(content, isDraft) ==
    Join(RewriteFirstDraftLine(Split(content, "\n"), isDraft), "\n")

\* the file test of handleContentChange and handleDraftStatusChange
IsBlogPostFile(filename) ==
    /\ HasSuffix(filename, MdExt)
    /\ Contains(filename, PostsDir) \/ Contains(filename, DraftsDir)

\* the file test of handleCodeModification
IsGoFile(filename) == HasSuffix(filename, <<".","g","o">>)

\* the new path of handleDraftStatusChange
MovedFilename(filename, publish) ==
    LET baseName == TrimSuffix(Base(filename), MdExt)
    IN  IF publish THEN PathJoin(<<<<"p","k","g">>, <<"b","l","o","g","_","m","a","r","k","d","o","w","n","_","c","o","n","t","e","n","t">>, <<"p","o","s","t","s">>,
                                   baseName \o MdExt>>)
        ELSE PathJoin(<<<<"p","k","g">>, <<"b","l","o","g","_","m","a","r","k","d","o","w","n","_","c","o","n","t","e","n","t">>, <<"d","r","a","f","t","s">>,
                        baseName \o MdExt>>)

\* the template of generateTemplateContent: the topic appears twice between
\* fixed text (the fixed text is abbreviated to its first words)
generateTemplateContent(request) ==
    <<"H","e","y"," ","t","h","e","r","e","!"," ">> \o request.Topic \o <<" ","S","o"," ","w","h","a","t"," ">> \o request.Topic \o <<" ","i","s">>

blogBranchName(number) == <<"a","i","-","a","s","s","i","s","t","e","d","-","p","o","s","t","-">> \o Itoa(number)

codeBranchName(number) == <<"a","i","-","c","o","d","e","-","c","h","a","n","g","e","-">> \o Itoa(number)

\* ------------------------------------------------------------------------
\* Inputs: the issue titles, bodies and comments that deliveries carry
\* ------------------------------------------------------------------------

\* "Blog post: Go 101"
TitleBlog == <<"B","l","o","g"," ","p","o","s","t",":"," ","G","o"," ","1","0","1">>

\* "Code: Add x"
TitleCode == <<"C","o","d","e",":"," ","A","d","d"," ","x">>

\* each title is actionable in one workflow and not in the other
Titles == {TitleBlog, TitleCode}

\* "Go"
BodyPlain == <<"G","o">>

\* "File: a.md": the optional line of a code request, naming a file that is no
\* Go source
BodyFile == <<"F","i","l","e",":"," ","a",".","m","d">>

Bodies == {BodyPlain, BodyFile}

\* the bodies of the issues of a workflow: the File: line is an option of the
\* issue format of code requests
BodiesOf(wf, title) == IF wf = "code" /\ title = TitleCode THEN Bodies ELSE {BodyPlain}

\* "Ready to publish!"
ReadyToPublish == <<"R","e","a","d","y"," ","t","o"," ","p","u","b","l","i","s","h","!">>

\* "Move back to draft"
MoveBackToDraft == <<"M","o","v","e"," ","b","a","c","k"," ","t","o"," ","d","r","a","f","t">>

\* "Make it a draft, please"
MakeItADraftPlease == <<"M","a","k","e"," ","i","t"," ","a"," ","d","r","a","f","t",","," ","p","l","e","a","s","e">>

\* "Do not publish, move to draft"
NotPublishMoveToDraft == <<"D","o"," ","n","o","t"," ","p","u","b","l","i","s","h",","," ","m","o","v","e"," ","t","o"," ","d","r","a","f","t">>

\* "Can you add more?"
CanYouAddMore == <<"C","a","n"," ","y","o","u"," ","a","d","d"," ","m","o","r","e","?">>

Comments ==
    {ReadyToPublish, MoveBackToDraft, MakeItADraftPlease, NotPublishMoveToDraft,
     CanYouAddMore}

\* the text the generative backend returns for a generation request
AiText == <<"H","i">>

\* ------------------------------------------------------------------------
\* State
\* ------------------------------------------------------------------------

VARIABLES
    refs,       \* the branches of the host: records [repo, name]
    files,      \* the files of the host: records [repo, branch, path, content]
    prs,        \* the open pull requests: records [repo, head]
    pc,         \* per handler: the call it is about to make
    ev,         \* per handler: the event it is handling
    loc,        \* per handler: the local variables of the handling functions
    calls,      \* per handler: the outbound calls made so far, with their result
    delivered,  \* deliveries accepted so far
    faults,     \* outbound calls failed so far for a reason outside the model
    resp,       \* per handler: the status codes written to the HTTP response
    fn,         \* a function of the packages applied to inputs: its name, inputs, result
    boot        \* the process: its environment, the position of main, the routes

vars == <<refs, files, prs, pc, ev, loc, calls, delivered, faults, resp, fn, boot>>

\* what the handlers of a running server leave alone
aside == <<fn, boot>>

\* no function is being applied
NoCall == [op |-> "none", title |-> <<>>, body |-> <<>>, isDraft |-> FALSE, out |-> <<>>]

\* main: the environment variables it reads with os.Getenv and tests
EnvNames ==
    {"GITHUB_TOKEN", "AI_API_KEY", "GITHUB_OWNER", "GITHUB_REPO_WEBSITE",
     "GITHUB_REPO_BOT", "GITHUB_WEBHOOK_SECRET"}

\* main: the routes of http.HandleFunc
Routes == {"/webhook", "/health"}

\* the process once main listens, every variable of the environment set
Serving == [env |-> EnvNames, pc |-> "listening", routes |-> Routes]

\* the status codes of net/http the program writes
StatusOK == 200

StatusBadRequest == 400

StatusUnauthorized == 401

\* GITHUB_REPO_WEBSITE and GITHUB_REPO_BOT: the configured identifiers
repoWebsite == <<"m","y","-","s","i","t","e">>

repoBot == <<"s","i","t","e">>

\* the full names of the two repositories the identifiers stand for
FullNameOf(wf) == IF wf = "blog" THEN <<"o","w","n","e","r","/","m","y","-","s","i","t","e">> ELSE <<"o","w","n","e","r","/","s","i","t","e">>

\* a delivery: the parsed event, the repository full name of its payload, whether
\* the payload parses and whether its signature verifies against the secret;
\* wf is the workflow the router hands it to. hasBody tells whether the issue of
\* the payload has a body (github.Issue.Body is a *string, nil when it is absent)
NoEvent ==
    [kind |-> "none", wf |-> "none", number |-> 0, title |-> <<>>, body |-> <<>>,
     head |-> <<>>, comment |-> <<>>, repoName |-> <<>>, signed |-> TRUE,
     wellFormed |-> TRUE, hasBody |-> TRUE]

IssueEvent(wf, n, title, body) ==
    [kind |-> "issue", wf |-> wf, number |-> n, title |-> title, body |-> body,
     head |-> <<>>, comment |-> <<>>, repoName |-> FullNameOf(wf), signed |-> TRUE,
     wellFormed |-> TRUE, hasBody |-> TRUE]

PRCommentEvent(wf, head, comment) ==
    [kind |-> "prcomment", wf |-> wf, number |-> 0, title |-> <<>>, body |-> <<>>,
     head |-> head, comment |-> comment, repoName |-> FullNameOf(wf),
     signed |-> TRUE, wellFormed |-> TRUE, hasBody |-> TRUE]

NoLoc ==
    [branch |-> <<>>, filename |-> <<>>, content |-> <<>>, current |-> <<>>,
     sha |-> <<>>, newFilename |-> <<>>, publish |-> FALSE, err |-> FALSE,
     refAtEntry |-> FALSE, prFilesAtEntry |-> <<>>, generated |-> FALSE]

Init ==
    /\ refs = {}
    /\ files = {}
    /\ prs = {}
    /\ pc = [h \in Handlers |-> "idle"]
    /\ ev = [h \in Handlers |-> NoEvent]
    /\ loc = [h \in Handlers |-> NoLoc]
    /\ calls = [h \in Handlers |-> <<>>]
    /\ delivered = 0
    /\ faults = 0
    /\ resp = [h \in Handlers |-> {}]
    /\ fn = NoCall
    /\ boot = Serving

\* ------------------------------------------------------------------------
\* The host (GitHub) as the client of pkg/bot-github sees it
\* ------------------------------------------------------------------------

\* the blob sha of a file is a function of its content
BlobSha(content) == <<"sha", content>>

FilesAt(repo, branch, path) ==
    {f \in files : f.repo = repo /\ f.branch = branch /\ f.path = path}

\* the characters of the paths of the model, in ASCII order
AsciiOrder == <<"-",".","/","0","1","2","3","4","5","6","7","8","9","_","a","b","c","d","e","f","g","h","i","j","k","l","m","n","o","p","q","r","s","t","u","v","w","x","y","z">>

\* a sorts before b, byte by byte
PathLess(a, b) ==
    \/ Len(a) < Len(b) /\ SubSeq(b, 1, Len(a)) = a
    \/ \E i \in 1..Len(a) :
        /\ i <= Len(b)
        /\ SubSeq(a, 1, i - 1) = SubSeq(b, 1, i - 1)
        /\ IndexOf(AsciiOrder, a[i]) < IndexOf(AsciiOrder, b[i])

RECURSIVE SortPaths(_)
SortPaths(S) ==
    IF S = {} THEN <<>>
    ELSE LET m == CHOOSE x \in S : \A y \in S \ {x} : PathLess(x, y)
         IN  <<m>> \o SortPaths(S \ {m})

\* the files a pull request changes, as the host lists them: the files of its
\* head branch that main does not have, by file name
PullRequestFiles(repo, head) ==
    SortPaths({f.path : f \in {g \in files : g.repo = repo /\ g.branch = head}})

\* the results a call can have: success when the host can do it, and failure
\* either because it cannot or for a reason outside the model
Results(possible) ==
    IF possible THEN {TRUE} \cup (IF faults < MaxFaults THEN {FALSE} ELSE {})
    ELSE {FALSE}

\* an entry of a handler's call log: fault tells a failure for a reason outside
\* the model from a call the host rejects
CallEntry(op, branch, path, possible, ok) ==
    [op |-> op, branch |-> branch, path |-> path, ok |-> ok, fault |-> possible /\ ~ok]

\* handler h makes the call op on the path of the branch, with result ok
Call(h, op, branch, path, possible, ok) ==
    /\ ok \in Results(possible)
    /\ calls' = [calls EXCEPT ![h] = Append(@, CallEntry(op, branch, path, possible, ok))]
    /\ faults' = IF possible /\ ~ok THEN faults + 1 ELSE faults

\* the handler goes on to the label; when it returns, HandleWebhook writes 200
Goto(h, label) ==
    /\ pc' = [pc EXCEPT ![h] = label]
    /\ resp' = [resp EXCEPT ![h] = IF label = "done" THEN {StatusOK} ELSE {}]

\* the delivery ends at once with the statuses written (none when it panicked)
Finish(h, label, statuses) ==
    /\ pc' = [pc EXCEPT ![h] = label]
    /\ resp' = [resp EXCEPT ![h] = statuses]

At(h, label, kind, wf) == pc[h] = label /\ ev[h].kind = kind /\ ev[h].wf = wf

\* ------------------------------------------------------------------------
\* Deliveries
\* ------------------------------------------------------------------------

\* contains(s, substr) panics: s[len(s)-len(substr):] with a negative bound is
\* evaluated when both are non-empty, s is not substr, and s is the shorter
containsPanics(s, substr) ==
    /\ Len(s) > 0 /\ Len(substr) > 0
    /\ s # substr
    /\ Len(s) < Len(substr)

\* contains(s, substr) where it returns
contains(s, substr) ==
    /\ Len(s) > 0 /\ Len(substr) > 0
    /\ \/ s = substr
       \/ SubSeq(s, Len(s) - Len(substr) + 1, Len(s)) = substr

\* the mutant tries the identifier of the code repository first
Route_CodeFirst(repoName) ==
    IF containsPanics(repoName, repoBot) THEN "panic"
    ELSE IF contains(repoName, repoBot) THEN "code"
    ELSE IF containsPanics(repoName, repoWebsite) THEN "panic"
    ELSE IF contains(repoName, repoWebsite) THEN "blog"
    ELSE "unknown"

\* router.HandleWebhook: the switch over the repository name
Route(repoName) ==
    IF containsPanics(repoName, repoWebsite) THEN "panic"
    ELSE IF contains(repoName, repoWebsite) THEN "blog"
    ELSE IF containsPanics(repoName, repoBot) THEN "panic"
    ELSE IF contains(repoName, repoBot) THEN "code"
    ELSE "unknown"

\* router.HandleWebhook: the name is taken from issue and review comment events
\* only; for every other event type repoName stays empty
RouterRepoName(e) ==
    IF e.kind \in {"issue", "prcomment"} THEN e.repoName ELSE <<>>

\* where a delivery ends up: "none" when the router cannot parse the payload
Dispatch(e) == IF e.wellFormed THEN Route(RouterRepoName(e)) ELSE "none"

\* a goroutine of the server is free before and after a delivery
Free == {"idle", "done", "panicked"}

branchNameOf(wf, number) ==
    IF wf = "blog" THEN blogBranchName(number) ELSE codeBranchName(number)

\* the events the host can deliver to a workflow in the current state: an issue
\* is opened, or a review comment is made on an open pull request
IssuesOpened(wf) ==
    UNION {{IssueEvent(wf, n, t, b) : n \in Issues, b \in BodiesOf(wf, t)} : t \in Titles}

\* the review comments made on the pull requests of a workflow: the code
\* workflow tells a change request from every other comment, and has no
\* lifecycle phrases
CommentsOf(wf) == IF wf = "code" THEN {CanYouAddMore, MoveBackToDraft} ELSE Comments

CommentsCreated(wf) ==
    {PRCommentEvent(wf, p.head, c) : p \in {q \in prs : q.repo = wf}, c \in CommentsOf(wf)}

\* deliveries that no workflow handles: a payload that does not parse, payloads
\* whose signature does not verify, repositories outside the configuration, a
\* name shorter than an identifier, and an event type the router takes no name of
OtherDeliveries ==
    {[IssueEvent("blog", 1, <<>>, <<>>) EXCEPT !.wellFormed = FALSE],
     [IssueEvent("code", 1, TitleCode, BodyPlain) EXCEPT !.signed = FALSE],
     [IssueEvent("blog", 1, TitleBlog, BodyPlain) EXCEPT !.signed = FALSE,
                                                        !.repoName = repoWebsite],
     [IssueEvent("blog", 1, TitleBlog, BodyPlain) EXCEPT !.repoName = <<"o","w","n","e","r","/","o","t","h","e","r">>,
                                                        !.signed = FALSE],
     [IssueEvent("code", 1, TitleCode, BodyPlain) EXCEPT !.repoName = repoBot],
     [IssueEvent("blog", 1, TitleBlog, BodyPlain) EXCEPT !.kind = "issuecomment"]}

\* issues opened without a description: the payload has "body": null
IssuesWithoutBody ==
    {[IssueEvent(wf, n, TitleCode, <<>>) EXCEPT !.hasBody = FALSE] :
        wf \in {"blog", "code"}, n \in Issues}

\* every delivery the host can make in the current state
Deliveries ==
    IssuesOpened("blog") \cup IssuesOpened("code")
        \cup CommentsCreated("blog") \cup CommentsCreated("code")
        \cup IssuesWithoutBody
        \cup OtherDeliveries

\* the deliveries of the kind that reach the dispatch of the workflow's
\* HandleWebhook: routed to it, and ValidatePayload accepts the signature
Accepted(kind, wf) ==
    {e \in Deliveries : e.kind = kind /\ Dispatch(e) = wf /\ e.signed}

\* HandleWebhook: the HTTP server runs it in a goroutine of its own for each
\* delivery; it dispatches event e of the given kind to the workflow's handler.
\* Free goroutines are interchangeable: the delivery takes the first one.
Ready(h) ==
    /\ pc[h] \in Free
    /\ \A g \in Handlers : pc[g] \in Free => h <= g
    /\ delivered < MaxEvents

Deliver(h, e) ==
    /\ Ready(h)
    /\ ev' = [ev EXCEPT ![h] = [e EXCEPT !.wf = Dispatch(e)]]
    /\ delivered' = delivered + 1
    /\ UNCHANGED aside

\* the local variables of a handler that starts on event e
\* (refAtEntry and prFilesAtEntry record what the host held when the delivery
\* arrived; the handlers do not read them)
EntryLoc(e) ==
    [NoLoc EXCEPT
        !.refAtEntry =
            e.kind = "issue"
            /\ [repo |-> e.wf, name |-> branchNameOf(e.wf, e.number)] \in refs,
        !.prFilesAtEntry =
            IF e.kind = "prcomment" THEN PullRequestFiles(e.wf, e.head) ELSE <<>>]

\* the mutant is a handler that returns when the reaction fails
StepFirstNotify_Gating(h, e, op, next) ==
    \E ok \in BOOLEAN :
        /\ ok \in Results(TRUE)
        /\ calls' = [calls EXCEPT ![h] = <<CallEntry(op, <<>>, <<>>, TRUE, ok)>>]
        /\ faults' = IF ok THEN faults ELSE faults + 1
        /\ loc' = [loc EXCEPT ![h] = EntryLoc(e)]
        /\ Goto(h, IF ok THEN next ELSE "done")
        /\ UNCHANGED <<refs, files, prs>>

\* the first call of a handler, a reaction whose result is only logged
StepFirstNotify(h, e, op, next) ==
    \E ok \in BOOLEAN :
        /\ ok \in Results(TRUE)
        /\ calls' = [calls EXCEPT ![h] = <<CallEntry(op, <<>>, <<>>, TRUE, ok)>>]
        /\ faults' = IF ok THEN faults ELSE faults + 1
        /\ loc' = [loc EXCEPT ![h] = EntryLoc(e)]
        /\ Goto(h, next)
        /\ UNCHANGED <<refs, files, prs>>

\* a handler that returns at once: the event is not actionable
StepIgnore(h, e) ==
    /\ calls' = [calls EXCEPT ![h] = <<>>]
    /\ loc' = [loc EXCEPT ![h] = EntryLoc(e)]
    /\ Goto(h, "done")
    /\ UNCHANGED <<refs, files, prs, faults>>

\* ------------------------------------------------------------------------
\* The steps of createBlogPostPR and createCodeChangePR on the host
\* ------------------------------------------------------------------------

\* Client.CreateBranch, first call: get the ref of main
StepGetRef(h, next, failed) ==
    \E ok \in BOOLEAN :
        /\ Call(h, "GetRef", <<>>, <<>>, TRUE, ok)
        /\ Goto(h, IF ok THEN next ELSE failed)
        /\ loc' = [loc EXCEPT ![h].err = ~ok]
        /\ UNCHANGED <<refs, files, prs, ev, delivered, aside>>

\* the mutant creates the ref without the host rejecting an existing one
StepCreateRef_NoReject(h, next, failed) ==
    \E ok \in BOOLEAN :
        /\ Call(h, "CreateRef", loc[h].branch, <<>>, TRUE, ok)
        /\ refs' = IF ok THEN refs \cup {[repo |-> ev[h].wf, name |-> loc[h].branch]}
                   ELSE refs
        /\ Goto(h, IF ok THEN next ELSE failed)
        /\ loc' = [loc EXCEPT ![h].err = ~ok]
        /\ UNCHANGED <<files, prs, ev, delivered, aside>>

\* Client.CreateBranch, second call: create the ref; the host rejects an existing ref
StepCreateRef(h, next, failed) ==
    \E ok \in BOOLEAN :
        /\ Call(h, "CreateRef", loc[h].branch, <<>>,
                [repo |-> ev[h].wf, name |-> loc[h].branch] \notin refs, ok)
        /\ refs' = IF ok THEN refs \cup {[repo |-> ev[h].wf, name |-> loc[h].branch]}
                   ELSE refs
        /\ Goto(h, IF ok THEN next ELSE failed)
        /\ loc' = [loc EXCEPT ![h].err = ~ok]
        /\ UNCHANGED <<files, prs, ev, delivered, aside>>

\* the mutant lets the host replace a file that exists at the path
StepCreateFile_Overwrite(h, branch, path, content, next, failed) ==
    \E ok \in BOOLEAN :
        /\ Call(h, "CreateFile", branch, path, TRUE, ok)
        /\ files' = IF ok
                    THEN (files \ FilesAt(ev[h].wf, branch, path))
                         \cup {[repo |-> ev[h].wf, branch |-> branch,
                                path |-> path, content |-> content]}
                    ELSE files
        /\ Goto(h, IF ok THEN next ELSE failed)
        /\ loc' = [loc EXCEPT ![h].err = ~ok]
        /\ UNCHANGED <<refs, prs, ev, delivered, aside>>

\* Client.CreateFile: the host rejects a path that exists on the branch
StepCreateFile(h, branch, path, content, next, failed) ==
    \E ok \in BOOLEAN :
        /\ Call(h, "CreateFile", branch, path, FilesAt(ev[h].wf, branch, path) = {}, ok)
        /\ files' = IF ok
                    THEN files \cup {[repo |-> ev[h].wf, branch |-> branch,
                                      path |-> path, content |-> content]}
                    ELSE files
        /\ Goto(h, IF ok THEN next ELSE failed)
        /\ loc' = [loc EXCEPT ![h].err = ~ok]
        /\ UNCHANGED <<refs, prs, ev, delivered, aside>>

\* Client.CreatePullRequest: the host rejects a second pull request of a head
StepCreatePullRequest(h, next, failed) ==
    \E ok \in BOOLEAN :
        /\ Call(h, "CreatePullRequest", loc[h].branch, <<>>,
                [repo |-> ev[h].wf, head |-> loc[h].branch] \notin prs, ok)
        /\ prs' = IF ok THEN prs \cup {[repo |-> ev[h].wf, head |-> loc[h].branch]}
                  ELSE prs
        /\ Goto(h, IF ok THEN next ELSE failed)
        /\ loc' = [loc EXCEPT ![h].err = ~ok]
        /\ UNCHANGED <<refs, files, ev, delivered, aside>>

\* a comment or a reaction: its result is ignored or only logged
StepNotify(h, op, next) ==
    \E ok \in BOOLEAN :
        /\ Call(h, op, <<>>, <<>>, TRUE, ok)
        /\ Goto(h, next)
        /\ UNCHANGED <<refs, files, prs, ev, loc, delivered, aside>>

\* ------------------------------------------------------------------------
\* botblog.Handler: a new issue
\* ------------------------------------------------------------------------

\* a delivery that ends without a workflow: no call is made
StepEnd(h, label, statuses) ==
    /\ calls' = [calls EXCEPT ![h] = <<>>]
    /\ loc' = [loc EXCEPT ![h] = NoLoc]
    /\ Finish(h, label, statuses)
    /\ UNCHANGED <<refs, files, prs, faults>>

\* router.HandleWebhook: github.ParseWebHook fails
RouterParseFailed(h) ==
    /\ Ready(h)
    /\ \E e \in Deliveries :
        /\ ~e.wellFormed
        /\ Deliver(h, e)
        /\ StepEnd(h, "done", {StatusBadRequest})

\* the mutant is a server where the panic of one goroutine ends them all
RouterPanic_Crash(h) ==
    /\ Ready(h)
    /\ \E e \in Deliveries :
        /\ Dispatch(e) = "panic"
        /\ Deliver(h, e)
        /\ calls' = [calls EXCEPT ![h] = <<>>]
        /\ loc' = [loc EXCEPT ![h] = NoLoc]
        /\ pc' = [g \in Handlers |-> "panicked"]
        /\ resp' = [g \in Handlers |-> {}]
        /\ UNCHANGED <<refs, files, prs, faults>>

\* router.HandleWebhook: contains panics; net/http recovers the goroutine and
\* closes the connection without a response
RouterPanic(h) ==
    /\ Ready(h)
    /\ \E e \in Deliveries :
        /\ Dispatch(e) = "panic"
        /\ Deliver(h, e)
        /\ StepEnd(h, "panicked", {})

\* router.HandleWebhook: the default case
RouterUnknown(h) ==
    /\ Ready(h)
    /\ \E e \in Deliveries :
        /\ Dispatch(e) = "unknown"
        /\ Deliver(h, e)
        /\ StepEnd(h, "done", {StatusOK})

\* botblog HandleWebhook: github.ValidatePayload fails
BlogValidateFailed(h) ==
    /\ Ready(h)
    /\ \E e \in Deliveries :
        /\ Dispatch(e) = "blog" /\ ~e.signed
        /\ Deliver(h, e)
        /\ StepEnd(h, "done", {StatusUnauthorized})

\* botcode HandleWebhook: github.ValidatePayload fails
CodeValidateFailed(h) ==
    /\ Ready(h)
    /\ \E e \in Deliveries :
        /\ Dispatch(e) = "code" /\ ~e.signed
        /\ Deliver(h, e)
        /\ StepEnd(h, "done", {StatusUnauthorized})

\* the mutant reacts to the issue before it looks at the title
BlogHandleNewIssue_ReactFirst(h) ==
    /\ Ready(h)
    /\ \E e \in Accepted("issue", "blog") :
        /\ Deliver(h, e)
        /\ IF ~e.hasBody
           THEN StepEnd(h, "panicked", {})
           ELSE StepFirstNotify(h, e, "ReactToIssue",
                                IF isBlogRequest(e.title) THEN "blog_generate" ELSE "done")

\* handleNewIssue up to the +1 reaction: title := *issue.Title and
\* body := *issue.Body come first, and the dereference of a nil Body panics
\* (net/http recovers the goroutine and closes the connection)
BlogHandleNewIssue(h) ==
    /\ Ready(h)
    /\ \E e \in Accepted("issue", "blog") :
        /\ Deliver(h, e)
        /\ IF ~e.hasBody
           THEN StepEnd(h, "panicked", {})
           ELSE IF ~isBlogRequest(e.title)
           THEN StepIgnore(h, e)
           ELSE StepFirstNotify(h, e, "ReactToIssue", "blog_generate")

\* createBlogPostPR up to the branch name: generation, template fallback, post
BlogGenerate(h) ==
    /\ At(h, "blog_generate", "issue", "blog")
    /\ \E ok \in BOOLEAN :
        LET request == ParseIssueForRequest(ev[h].title, ev[h].body)
            content == IF ok THEN AiText ELSE generateTemplateContent(request)
            post == [NewPost(request.Title, request.Topic, request.Tags, request.Draft)
                        EXCEPT !.Content = content]
        IN  /\ Call(h, "GenerateBlogPost", <<>>, <<>>, TRUE, ok)
            /\ loc' = [loc EXCEPT ![h].branch = blogBranchName(ev[h].number),
                                  ![h].filename = GetFilePath(post),
                                  ![h].content = GenerateMarkdown(post),
                                  ![h].generated = ok]
    /\ Goto(h, "blog_getref")
    /\ UNCHANGED <<refs, files, prs, ev, delivered, aside>>

BlogGetRef(h) ==
    /\ At(h, "blog_getref", "issue", "blog")
    /\ StepGetRef(h, "blog_createref", "blog_failcomment")

\* the mutant goes on to the file although the branch was not created
BlogCreateRef_IgnoreError(h) ==
    /\ At(h, "blog_createref", "issue", "blog")
    /\ StepCreateRef(h, "blog_createfile", "blog_createfile")

BlogCreateRef(h) ==
    /\ At(h, "blog_createref", "issue", "blog")
    /\ StepCreateRef(h, "blog_createfile", "blog_failcomment")

BlogCreateFile(h) ==
    /\ At(h, "blog_createfile", "issue", "blog")
    /\ StepCreateFile(h, loc[h].branch, loc[h].filename, loc[h].content,
                      "blog_createpr", "blog_failcomment")

BlogCreatePullRequest(h) ==
    /\ At(h, "blog_createpr", "issue", "blog")
    /\ StepCreatePullRequest(h, "done", "blog_failcomment")

\* the mutant deletes the branch of the failed request and the files on it
BlogFailComment_Rollback(h) ==
    /\ At(h, "blog_failcomment", "issue", "blog")
    /\ \E ok \in BOOLEAN :
        /\ Call(h, "CommentOnIssue", <<>>, <<>>, TRUE, ok)
        /\ refs' = refs \ {[repo |-> "blog", name |-> loc[h].branch]}
        /\ files' = {f \in files : ~(f.repo = "blog" /\ f.branch = loc[h].branch)}
        /\ Goto(h, "done")
        /\ UNCHANGED <<prs, ev, loc, delivered, aside>>

\* the mutant drops the failed request without a comment
BlogFailComment_Silent(h) ==
    /\ At(h, "blog_failcomment", "issue", "blog")
    /\ Goto(h, "done")
    /\ UNCHANGED <<refs, files, prs, ev, loc, calls, delivered, aside, faults>>

\* handleNewIssue after createBlogPostPR returned an error
BlogFailComment(h) ==
    /\ At(h, "blog_failcomment", "issue", "blog")
    /\ StepNotify(h, "CommentOnIssue", "done")

\* ------------------------------------------------------------------------
\* botcode.Handler: a new issue
\* ------------------------------------------------------------------------

\* HandleNewIssue up to the +1 reaction
CodeHandleNewIssue(h) ==
    /\ Ready(h)
    /\ \E e \in Accepted("issue", "code") :
        /\ Deliver(h, e)
        /\ IF ~e.hasBody
           THEN StepEnd(h, "panicked", {})
           ELSE IF ~isCodeRequest(e.title)
           THEN StepIgnore(h, e)
           ELSE StepFirstNotify(h, e, "ReactToIssue", "code_generate")

\* the mutant goes on with a fixed text when the generation fails
CodeGenerate_Fallback(h) ==
    /\ At(h, "code_generate", "issue", "code")
    /\ \E ok \in BOOLEAN :
        LET request == ParseIssueForCodeRequest(ev[h].title, ev[h].body)
        IN  /\ Call(h, "GenerateCode", <<>>, <<>>, TRUE, ok)
            /\ loc' = [loc EXCEPT ![h].branch = codeBranchName(ev[h].number),
                                  ![h].filename = DetermineTargetPath(request),
                                  ![h].content = AiText,
                                  ![h].generated = ok]
            /\ Goto(h, "code_getref")
    /\ UNCHANGED <<refs, files, prs, ev, delivered, aside>>

\* createCodeChangePR up to the branch name: generation (no fallback), code file
CodeGenerate(h) ==
    /\ At(h, "code_generate", "issue", "code")
    /\ \E ok \in BOOLEAN :
        LET request == ParseIssueForCodeRequest(ev[h].title, ev[h].body)
        IN  /\ Call(h, "GenerateCode", <<>>, <<>>, TRUE, ok)
            /\ loc' = [loc EXCEPT ![h].branch = IF ok THEN codeBranchName(ev[h].number)
                                                ELSE <<>>,
                                  ![h].filename = IF ok THEN DetermineTargetPath(request)
                                                  ELSE <<>>,
                                  ![h].content = IF ok THEN AiText ELSE <<>>,
                                  ![h].generated = ok,
                                  ![h].err = ~ok]
            /\ Goto(h, IF ok THEN "code_getref" ELSE "code_failcomment")
    /\ UNCHANGED <<refs, files, prs, ev, delivered, aside>>

CodeGetRef(h) ==
    /\ At(h, "code_getref", "issue", "code")
    /\ StepGetRef(h, "code_createref", "code_failcomment")

\* the mutant goes on to the file although the branch was not created
CodeCreateRef_IgnoreError(h) ==
    /\ At(h, "code_createref", "issue", "code")
    /\ StepCreateRef(h, "code_createfile", "code_createfile")

CodeCreateRef(h) ==
    /\ At(h, "code_createref", "issue", "code")
    /\ StepCreateRef(h, "code_createfile", "code_failcomment")

CodeCreateFile(h) ==
    /\ At(h, "code_createfile", "issue", "code")
    /\ StepCreateFile(h, loc[h].branch, loc[h].filename, loc[h].content,
                      "code_createpr", "code_failcomment")

CodeCreatePullRequest(h) ==
    /\ At(h, "code_createpr", "issue", "code")
    /\ StepCreatePullRequest(h, "done", "code_failcomment")

\* HandleNewIssue after createCodeChangePR returned an error
CodeFailComment(h) ==
    /\ At(h, "code_failcomment", "issue", "code")
    /\ StepNotify(h, "CommentOnIssue", "done")

\* ------------------------------------------------------------------------
\* The steps of the PR comment handlers on the host
\* ------------------------------------------------------------------------

\* the mutant is a loop without the break: the last file that matches is taken
RECURSIVE FirstBlogPostFile_Last(_)
FirstBlogPostFile_Last(list) ==
    IF list = <<>> THEN <<>>
    ELSE IF FirstBlogPostFile_Last(Tail(list)) # <<>> THEN FirstBlogPostFile_Last(Tail(list))
    ELSE IF IsBlogPostFile(Head(list)) THEN <<Head(list)>>
    ELSE <<>>

\* the loop over the files of the PR stops at the first file that matches
RECURSIVE FirstBlogPostFile(_)
FirstBlogPostFile(list) ==
    IF list = <<>> THEN <<>>
    ELSE IF IsBlogPostFile(Head(list)) THEN <<Head(list)>>
    ELSE FirstBlogPostFile(Tail(list))

RECURSIVE FirstGoFile(_)
FirstGoFile(list) ==
    IF list = <<>> THEN <<>>
    ELSE IF IsGoFile(Head(list)) THEN <<Head(list)>>
    ELSE FirstGoFile(Tail(list))

\* Client.ListPullRequestFiles and the loop's search for the first matching file
StepListFiles(h, found, next, nomatch, failed) ==
    \E ok \in BOOLEAN :
        /\  /\ Call(h, "ListPullRequestFiles", <<>>, <<>>, TRUE, ok)
            /\ loc' = [loc EXCEPT ![h].err = ~ok,
                                  ![h].filename = IF ok /\ found # <<>> THEN found[1]
                                                  ELSE <<>>]
            /\ Goto(h, IF ~ok THEN failed ELSE IF found = <<>> THEN nomatch ELSE next)
            /\ UNCHANGED <<refs, files, prs, ev, delivered, aside>>

\* Client.GetFileContent: content and sha of the file on the head branch
StepGetFileContent(h, next, failed) ==
    \E ok \in BOOLEAN :
        LET at == FilesAt(ev[h].wf, ev[h].head, loc[h].filename)
            file == CHOOSE f \in at : TRUE
        IN  /\ Call(h, "GetFileContent", ev[h].head, loc[h].filename, at # {}, ok)
            /\ loc' = [loc EXCEPT ![h].err = ~ok,
                                  ![h].current = IF ok THEN file.content ELSE <<>>,
                                  ![h].sha = IF ok THEN BlobSha(file.content) ELSE <<>>]
            /\ Goto(h, IF ok THEN next ELSE failed)
            /\ UNCHANGED <<refs, files, prs, ev, delivered, aside>>

\* the file of the head branch at the path, if its blob sha is the one given
FileWithSha(h, path, sha) ==
    {f \in FilesAt(ev[h].wf, ev[h].head, path) : BlobSha(f.content) = sha}

\* the mutant is an update that carries no sha: the host replaces the file at the
\* path whatever its content
StepUpdateFile_NoSha(h, next, failed) ==
    \E ok \in BOOLEAN :
        LET old == FilesAt(ev[h].wf, ev[h].head, loc[h].filename)
        IN  /\ Call(h, "UpdateFile", ev[h].head, loc[h].filename, old # {}, ok)
            /\ files' = IF ok
                        THEN (files \ old)
                             \cup {[repo |-> ev[h].wf, branch |-> ev[h].head,
                                    path |-> loc[h].filename, content |-> loc[h].content]}
                        ELSE files
            /\ Goto(h, IF ok THEN next ELSE failed)
            /\ loc' = [loc EXCEPT ![h].err = ~ok]
            /\ UNCHANGED <<refs, prs, ev, delivered, aside>>

\* Client.UpdateFile: the host rejects a sha that is not the file's
StepUpdateFile(h, next, failed) ==
    \E ok \in BOOLEAN :
        LET old == FileWithSha(h, loc[h].filename, loc[h].sha)
        IN  /\ Call(h, "UpdateFile", ev[h].head, loc[h].filename, old # {}, ok)
            /\ files' = IF ok
                        THEN (files \ old)
                             \cup {[repo |-> ev[h].wf, branch |-> ev[h].head,
                                    path |-> loc[h].filename, content |-> loc[h].content]}
                        ELSE files
            /\ Goto(h, IF ok THEN next ELSE failed)
            /\ loc' = [loc EXCEPT ![h].err = ~ok]
            /\ UNCHANGED <<refs, prs, ev, delivered, aside>>

\* Client.DeleteFile: the host rejects a sha that is not the file's
StepDeleteFile(h, next, failed) ==
    \E ok \in BOOLEAN :
        LET old == FileWithSha(h, loc[h].filename, loc[h].sha)
        IN  /\ Call(h, "DeleteFile", ev[h].head, loc[h].filename, old # {}, ok)
            /\ files' = IF ok THEN files \ old ELSE files
            /\ Goto(h, IF ok THEN next ELSE failed)
            /\ loc' = [loc EXCEPT ![h].err = ~ok]
            /\ UNCHANGED <<refs, prs, ev, delivered, aside>>

\* the texts the generative backend can return for a modification request: the
\* current text with its body changed, or a text that lost the front matter
ModifiedTexts(current) == {current \o <<"!">>, AiText}

\* Client.ModifyBlogPost and Client.ModifyCode: the returned text is taken as is
StepModify(h, op, next, failed) ==
    \E ok \in BOOLEAN, text \in ModifiedTexts(loc[h].current) :
        /\ Call(h, op, <<>>, <<>>, TRUE, ok)
        /\ loc' = [loc EXCEPT ![h].err = ~ok,
                              ![h].content = IF ok THEN text ELSE <<>>]
        /\ Goto(h, IF ok THEN next ELSE failed)
        /\ UNCHANGED <<refs, files, prs, ev, delivered, aside>>

\* ------------------------------------------------------------------------
\* botblog.Handler: a PR review comment
\* ------------------------------------------------------------------------

\* the mutant tests for a change request before it tests for a lifecycle phrase
BlogCommentRoute_ChangeFirst(comment) ==
    IF blogIsChangeRequest(comment) THEN "blog_cc_list"
    ELSE IF hasDraftStatusChange(comment) THEN "blog_ds_list"
    ELSE "done"

\* handlePRComment: where the comment is dispatched after the reaction
BlogCommentRoute(comment) ==
    IF hasDraftStatusChange(comment) THEN "blog_ds_list"
    ELSE IF blogIsChangeRequest(comment) THEN "blog_cc_list"
    ELSE "done"

\* handlePRComment: the +1 reaction, then the dispatch
BlogHandlePRComment(h) ==
    /\ Ready(h)
    /\ \E e \in Accepted("prcomment", "blog") :
        /\ Deliver(h, e)
        /\ StepFirstNotify(h, e, "ReactToPRComment", BlogCommentRoute(e.comment))

\* handlePRComment: an error of handleDraftStatusChange is logged, then return
BlogDraftStatusFailed == "done"

\* handleDraftStatusChange: the target state and the files of the PR
BlogDSListFiles(h) ==
    /\ At(h, "blog_ds_list", "prcomment", "blog")
    /\ \E ok \in BOOLEAN :
        LET found == FirstBlogPostFile(PullRequestFiles(ev[h].wf, ev[h].head))
        IN  /\ Call(h, "ListPullRequestFiles", <<>>, <<>>, TRUE, ok)
            /\ loc' = [loc EXCEPT ![h].err = ~ok,
                                  ![h].publish = shouldPublish(ev[h].comment),
                                  ![h].filename = IF ok /\ found # <<>> THEN found[1]
                                                  ELSE <<>>]
            /\ Goto(h, IF ~ok THEN BlogDraftStatusFailed
                       ELSE IF found = <<>> THEN "done" ELSE "blog_ds_get")
            /\ UNCHANGED <<refs, files, prs, ev, delivered, aside>>

\* handleDraftStatusChange: current content, updated content, new path
BlogDSGetContent(h) ==
    /\ At(h, "blog_ds_get", "prcomment", "blog")
    /\ \E ok \in BOOLEAN :
        LET at == FilesAt(ev[h].wf, ev[h].head, loc[h].filename)
            file == CHOOSE f \in at : TRUE
        IN  /\ Call(h, "GetFileContent", ev[h].head, loc[h].filename, at # {}, ok)
            /\ loc' = [loc EXCEPT
                         ![h].err = ~ok,
                         ![h].current = IF ok THEN file.content ELSE <<>>,
                         ![h].sha = IF ok THEN BlobSha(file.content) ELSE <<>>,
                         ![h].content =
                            IF ok THEN updateDraftStatus(file.content, ~loc[h].publish)
                            ELSE <<>>,
                         ![h].newFilename =
                            IF ok THEN MovedFilename(loc[h].filename, loc[h].publish)
                            ELSE <<>>]
            /\ Goto(h, IF ok THEN "blog_ds_create" ELSE BlogDraftStatusFailed)
            /\ UNCHANGED <<refs, files, prs, ev, delivered, aside>>

\* handleDraftStatusChange: the file at the new path
BlogDSCreateFile(h) ==
    /\ At(h, "blog_ds_create", "prcomment", "blog")
    /\ StepCreateFile(h, ev[h].head, loc[h].newFilename, loc[h].content,
                      "blog_ds_delete", BlogDraftStatusFailed)

\* the mutant posts the success comment although the delete failed
BlogDSDeleteFile_IgnoreError(h) ==
    /\ At(h, "blog_ds_delete", "prcomment", "blog")
    /\ StepDeleteFile(h, "blog_ds_comment", "blog_ds_comment")

\* handleDraftStatusChange: the file at the old path
BlogDSDeleteFile(h) ==
    /\ At(h, "blog_ds_delete", "prcomment", "blog")
    /\ StepDeleteFile(h, "blog_ds_comment", BlogDraftStatusFailed)

\* handleDraftStatusChange: the comment on success
BlogDSComment(h) ==
    /\ At(h, "blog_ds_comment", "prcomment", "blog")
    /\ StepNotify(h, "CommentOnPR:moved", "done")

\* handleContentChange: the files of the PR (no matching file is no error)
BlogCCListFiles(h) ==
    /\ At(h, "blog_cc_list", "prcomment", "blog")
    /\ StepListFiles(h, FirstBlogPostFile(PullRequestFiles(ev[h].wf, ev[h].head)),
                     "blog_cc_get", "blog_cc_rocket",
                     "blog_cc_failcomment")

BlogCCGetContent(h) ==
    /\ At(h, "blog_cc_get", "prcomment", "blog")
    /\ StepGetFileContent(h, "blog_cc_modify", "blog_cc_failcomment")

BlogCCModify(h) ==
    /\ At(h, "blog_cc_modify", "prcomment", "blog")
    /\ StepModify(h, "ModifyBlogPost", "blog_cc_update", "blog_cc_failcomment")

BlogCCUpdateFile(h) ==
    /\ At(h, "blog_cc_update", "prcomment", "blog")
    /\ StepUpdateFile(h, "blog_cc_rocket", "blog_cc_failcomment")

\* handlePRComment after handleContentChange returned an error
BlogCCFailComment(h) ==
    /\ At(h, "blog_cc_failcomment", "prcomment", "blog")
    /\ StepNotify(h, "CommentOnPR:sorry", "done")

\* handlePRComment after handleContentChange returned no error
BlogCCRocket(h) ==
    /\ At(h, "blog_cc_rocket", "prcomment", "blog")
    /\ StepNotify(h, "ReactToPRComment:rocket", "done")

\* ------------------------------------------------------------------------
\* botcode.Handler: a PR review comment
\* ------------------------------------------------------------------------

\* HandlePRComment: the +1 reaction, then the test for a change request
CodeHandlePRComment(h) ==
    /\ Ready(h)
    /\ \E e \in Accepted("prcomment", "code") :
        /\ Deliver(h, e)
        /\ StepFirstNotify(h, e, "ReactToPRComment",
                           IF codeIsChangeRequest(e.comment) THEN "code_cm_list"
                           ELSE "done")

\* handleCodeModification: the files of the PR (no matching file is no error)
CodeCMListFiles(h) ==
    /\ At(h, "code_cm_list", "prcomment", "code")
    /\ StepListFiles(h, FirstGoFile(PullRequestFiles(ev[h].wf, ev[h].head)),
                     "code_cm_get", "code_cm_rocket", "code_cm_failcomment")

CodeCMGetContent(h) ==
    /\ At(h, "code_cm_get", "prcomment", "code")
    /\ StepGetFileContent(h, "code_cm_modify", "code_cm_failcomment")

CodeCMModify(h) ==
    /\ At(h, "code_cm_modify", "prcomment", "code")
    /\ StepModify(h, "ModifyCode", "code_cm_update", "code_cm_failcomment")

CodeCMUpdateFile(h) ==
    /\ At(h, "code_cm_update", "prcomment", "code")
    /\ StepUpdateFile(h, "code_cm_rocket", "code_cm_failcomment")

\* HandlePRComment after handleCodeModification returned an error
CodeCMFailComment(h) ==
    /\ At(h, "code_cm_failcomment", "prcomment", "code")
    /\ StepNotify(h, "CommentOnPR:sorry", "done")

\* HandlePRComment after handleCodeModification returned no error
CodeCMRocket(h) ==
    /\ At(h, "code_cm_rocket", "prcomment", "code")
    /\ StepNotify(h, "ReactToPRComment:rocket", "done")

\* ------------------------------------------------------------------------
\* Specification
\* ------------------------------------------------------------------------

Next ==
    \E h \in Handlers :
        \/ RouterParseFailed(h)
        \/ RouterPanic(h)
        \/ RouterUnknown(h)
        \/ BlogValidateFailed(h)
        \/ CodeValidateFailed(h)
        \/ BlogHandleNewIssue(h)
        \/ BlogGenerate(h)
        \/ BlogGetRef(h)
        \/ BlogCreateRef(h)
        \/ BlogCreateFile(h)
        \/ BlogCreatePullRequest(h)
        \/ BlogFailComment(h)
        \/ CodeHandleNewIssue(h)
        \/ CodeGenerate(h)
        \/ CodeGetRef(h)
        \/ CodeCreateRef(h)
        \/ CodeCreateFile(h)
        \/ CodeCreatePullRequest(h)
        \/ CodeFailComment(h)
        \/ BlogHandlePRComment(h)
        \/ BlogDSListFiles(h)
        \/ BlogDSGetContent(h)
        \/ BlogDSCreateFile(h)
        \/ BlogDSDeleteFile(h)
        \/ BlogDSComment(h)
        \/ BlogCCListFiles(h)
        \/ BlogCCGetContent(h)
        \/ BlogCCModify(h)
        \/ BlogCCUpdateFile(h)
        \/ BlogCCFailComment(h)
        \/ BlogCCRocket(h)
        \/ CodeHandlePRComment(h)
        \/ CodeCMListFiles(h)
        \/ CodeCMGetContent(h)
        \/ CodeCMModify(h)
        \/ CodeCMUpdateFile(h)
        \/ CodeCMFailComment(h)
        \/ CodeCMRocket(h)

Spec == Init /\ [][Next]_vars

\* ------------------------------------------------------------------------
\* The functions of pkg/bot_blog and pkg/bot_code applied to issue texts
\* ------------------------------------------------------------------------

\* issue titles: the prefixes and keywords of both workflows in several letter
\* cases, the keywords of DetermineTargetPath alone and together, characters
\* that the slugs keep and drop
FnTitles ==
    {TitleBlog,
     <<"B","l","o","g"," ","p","o","s","t",":"," ","W","h","y"," ","G","o"," ","a","n","d"," ","H","T","M","X"," ","w","o","r","k"," ","w","e","l","l"," ","t","o","g","e","t","h","e","r">>,
     <<"B","L","O","G"," ","P","O","S","T",":"," ","W","h","y"," ","G","o">>,
     <<"b","l","o","g"," ","p","o","s","t",":","a","-","b"," ","C","!">>,
     TitleCode,
     <<"C","o","d","e",":"," ","A","d","d"," ","r","a","t","e"," ","l","i","m","i","t","i","n","g"," ","t","o"," ","A","I"," ","c","l","i","e","n","t">>,
     <<"c","o","d","e",":"," ","F","i","x"," ","h","a","n","d","l","e","r">>,
     <<"C","O","D","E",":"," ","T","e","s","t"," ","C","l","i","e","n","t">>,
     <<"R","e","f","a","c","t","o","r"," ","t","h","e"," ","h","a","n","d","l","e","r"," ","c","l","i","e","n","t">>,
     <<"I","m","p","l","e","m","e","n","t"," ","r","a","t","e","-","l","i","m","i","t"," ","2">>,
     <<"A","d","d"," ","F","e","a","t","u","r","e",":"," ","R","a","t","e"," ","L","i","m","i","t","i","n","g","!">>,
     <<"C","o","d","e",":"," ","m","y"," ","t","e","s","t">>}

\* issue bodies: no keyword line, a tags line (first, indented, second of two),
\* a file or path line (plain, indented, two of them, the last one empty), a
\* keyword that begins no line, and a line that looks like a front-matter field
FnBodies ==
    {BodyPlain,
     <<"T","a","g","s",":"," ","a",","," ","b",","," ","c">>,
     <<" "," ","T","a","g","s",":"," ","a",","," ","b">>,
     <<"G","o","\n","t","a","g","s",":"," ","G","o",","," ","W","e","b","\n","T","a","g","s",":"," ","z">>,
     <<"F","i","l","e",":"," ","p","k","g","/","b","o","t","-","a","i","/","c","l","i","e","n","t",".","g","o">>,
     <<" "," ","p","a","t","h",":"," ","c","m","d","/","x",".","g","o"," "," ">>,
     <<"F","i","l","e",":"," ","a",".","g","o","\n","P","a","t","h",":"," ","b",".","g","o">>,
     <<"P","a","t","h",":"," ","a",".","g","o","\n","f","i","l","e",":">>,
     <<"s","e","e"," ","f","i","l","e",":"," ","n","o","t","e","s">>,
     <<"G","o","\n","i","s","_","d","r","a","f","t",":"," ","n","o">>}

\* the inputs are drawn and no function is applied yet
Drawn == fn.op = "input"

\* the inputs are drawn, no function is applied yet
FnInit ==
    /\ refs = {}
    /\ files = {}
    /\ prs = {}
    /\ pc = [h \in Handlers |-> "idle"]
    /\ ev = [h \in Handlers |-> NoEvent]
    /\ loc = [h \in Handlers |-> NoLoc]
    /\ calls = [h \in Handlers |-> <<>>]
    /\ delivered = 0
    /\ faults = 0
    /\ resp = [h \in Handlers |-> {}]
    /\ boot = Serving
    /\ \E t \in FnTitles, b \in FnBodies, d \in BOOLEAN :
        fn = [op |-> "input", title |-> t, body |-> b, isDraft |-> d, out |-> <<>>]

\* the function named op returns out
Return(op, out) ==
    /\ fn' = [fn EXCEPT !.op = op, !.out = out]
    /\ UNCHANGED <<refs, files, prs, pc, ev, loc, calls, delivered, faults, resp, boot>>

\* the post that createBlogPostPR builds from the request of the issue (NewPost,
\* then the content is set), here with either draft flag
PostOf(title, body, isDraft) ==
    LET request == ParseIssueForRequest(title, body)
    IN  [NewPost(request.Title, request.Topic, request.Tags, isDraft)
            EXCEPT !.Content = body]

\* handleNewIssue: the title test and ParseIssueForRequest
FnParseIssueForRequest ==
    /\ Drawn
    /\ Return("ParseIssueForRequest",
           [actionable |-> isBlogRequest(fn.title),
            request |-> ParseIssueForRequest(fn.title, fn.body)])

\* HandleNewIssue: the title test and ParseIssueForCodeRequest
FnParseIssueForCodeRequest ==
    /\ Drawn
    /\ Return("ParseIssueForCodeRequest",
           [actionable |-> isCodeRequest(fn.title),
            request |-> ParseIssueForCodeRequest(fn.title, fn.body)])

\* createCodeChangePR: DetermineTargetPath of the parsed request
FnDetermineTargetPath ==
    /\ Drawn
    /\ Return("DetermineTargetPath",
           DetermineTargetPath(ParseIssueForCodeRequest(fn.title, fn.body)))

\* NewPost calls generateKey on the title; GetFilePath of the post
FnNewPost ==
    LET post == NewPost(fn.title, fn.body, <<<<"a","i","-","g","e","n","e","r","a","t","e","d">>>>, fn.isDraft)
    IN  /\ Drawn
        /\ Return("NewPost", [key |-> post.Key, path |-> GetFilePath(post)])

\* generateFilename, called twice on the title
FnGenerateFilename ==
    /\ Drawn
    /\ Return("generateFilename", <<generateFilename(fn.title), generateFilename(fn.title)>>)

\* GenerateMarkdown of a post, and updateDraftStatus of the text to either flag
FnGenerateMarkdown ==
    LET text == GenerateMarkdown(PostOf(fn.title, fn.body, fn.isDraft))
    IN  /\ Drawn
        /\ Return("GenerateMarkdown",
                  [text |-> text,
                   same |-> updateDraftStatus(text, fn.isDraft),
                   flipped |-> updateDraftStatus(text, ~fn.isDraft)])

FnNext ==
    \/ FnParseIssueForRequest
    \/ FnParseIssueForCodeRequest
    \/ FnDetermineTargetPath
    \/ FnNewPost
    \/ FnGenerateFilename
    \/ FnGenerateMarkdown

FnSpec == FnInit /\ [][FnNext]_vars

\* ------------------------------------------------------------------------
\* main: the start of the process
\* ------------------------------------------------------------------------

\* the variables main requires to be non-empty
Required ==
    {"GITHUB_TOKEN", "AI_API_KEY", "GITHUB_OWNER", "GITHUB_REPO_WEBSITE",
     "GITHUB_REPO_BOT"}

\* the process starts with any of the variables set (non-empty) or not
BootInit ==
    /\ refs = {}
    /\ files = {}
    /\ prs = {}
    /\ pc = [h \in Handlers |-> "idle"]
    /\ ev = [h \in Handlers |-> NoEvent]
    /\ loc = [h \in Handlers |-> NoLoc]
    /\ calls = [h \in Handlers |-> <<>>]
    /\ delivered = 0
    /\ faults = 0
    /\ resp = [h \in Handlers |-> {}]
    /\ fn = NoCall
    /\ \E set \in SUBSET EnvNames : boot = [env |-> set, pc |-> "main", routes |-> {}]

BootStep(from, to, routes) ==
    /\ boot.pc = from
    /\ boot' = [boot EXCEPT !.pc = to, !.routes = routes]
    /\ UNCHANGED <<refs, files, prs, pc, ev, loc, calls, delivered, faults, resp, fn>>

\* main: log.Fatal when a required variable is empty
MainFatal ==
    /\ ~(Required \subseteq boot.env)
    /\ BootStep("main", "fatal", {})

\* main: the clients, handlers and router are built, the routes registered
MainHandleFunc ==
    /\ Required \subseteq boot.env
    /\ BootStep("main", "registered", Routes)

\* main: http.ListenAndServe
MainListenAndServe ==
    /\ boot.routes = Routes
    /\ BootStep("registered", "listening", boot.routes)

BootNext ==
    \/ MainFatal
    \/ MainHandleFunc
    \/ MainListenAndServe

BootSpec == BootInit /\ [][BootNext]_vars

\* ------------------------------------------------------------------------
\* Properties
\* ------------------------------------------------------------------------

\* the delivery of handler h reached the dispatch of a workflow
Handled(h) == ev[h].wellFormed /\ ev[h].signed /\ ev[h].wf \in {"blog", "code"}

IssueRun(h) == ev[h].kind = "issue" /\ Handled(h)

CommentRun(h, wf) == ev[h].kind = "prcomment" /\ ev[h].wf = wf /\ Handled(h)

Made(h, op) == \E i \in DOMAIN calls[h] : calls[h][i].op = op

Succeeded(h, op) == \E i \in DOMAIN calls[h] : calls[h][i].op = op /\ calls[h][i].ok

Failed(h, op) == \E i \in DOMAIN calls[h] : calls[h][i].op = op /\ ~calls[h][i].ok

\* the host rejected the call (it did not fail for a reason outside the model)
Rejected(h, op) ==
    \E i \in DOMAIN calls[h] :
        calls[h][i].op = op /\ ~calls[h][i].ok /\ ~calls[h][i].fault

NoFault(h) == \A i \in DOMAIN calls[h] : ~calls[h][i].fault

\* call i of handler h is op, succeeded, and was made on the branch
OkBefore(h, j, op, branch) ==
    \E i \in 1..(j - 1) :
        calls[h][i].op = op /\ calls[h][i].ok /\ calls[h][i].branch = branch

\* the calls of the branch / file / pull request sequence of a new issue
SequenceOps == {"GetRef", "CreateRef", "CreateFile", "CreatePullRequest"}

\* C1: in both new-issue workflows, every CreateFile of a handler comes after a
\* successful CreateBranch of the same branch by that handler, and every
\* CreatePullRequest after a successful CreateFile on that branch.
C1_BranchBeforeFileBeforePR ==
    \A h \in Handlers :
        IssueRun(h) =>
            \A j \in DOMAIN calls[h] :
                /\ calls[h][j].op = "CreateFile"
                    => OkBefore(h, j, "CreateRef", calls[h][j].branch)
                /\ calls[h][j].op = "CreatePullRequest"
                    => /\ OkBefore(h, j, "CreateFile", calls[h][j].branch)
                       /\ OkBefore(h, j, "CreateRef", calls[h][j].branch)

\* a new issue was handled up to a successful CreatePullRequest
C1_Witness ==
    \E h \in Handlers :
        IssueRun(h) /\ pc[h] = "done" /\ Succeeded(h, "CreatePullRequest")

\* C2: in the new-issue workflows, after a failed GetRef/CreateRef (CreateBranch),
\* CreateFile or CreatePullRequest the handler makes no further step of the
\* sequence, is in the failed state, and has attempted the failure comment on the
\* issue by the time it is done.
C2_StepFailureHaltsAndComments ==
    \A h \in Handlers :
        IssueRun(h) =>
            \A j \in DOMAIN calls[h] :
                (calls[h][j].op \in SequenceOps /\ ~calls[h][j].ok) =>
                    /\ \A k \in (j + 1)..Len(calls[h]) : calls[h][k].op = "CommentOnIssue"
                    /\ Len(calls[h]) <= j + 1
                    /\ loc[h].err
                    /\ pc[h] \in {"blog_failcomment", "code_failcomment", "done"}
                    /\ pc[h] = "done" => Made(h, "CommentOnIssue")

\* a handler whose CreateFile failed is done and has attempted the comment
C2_Witness ==
    \E h \in Handlers :
        /\ IssueRun(h) /\ pc[h] = "done"
        /\ Failed(h, "CreateFile") /\ Made(h, "CommentOnIssue")

\* the source-control calls of the PR comment handlers
CommentOps ==
    {"ListPullRequestFiles", "GetFileContent", "CreateFile", "UpdateFile", "DeleteFile"}

\* C3: for every actionable PR comment (blog: lifecycle directive or content
\* change; code: change request), a failed source-control call halts the
\* remaining steps and a comment is attempted on the pull request before the
\* handler is done.
C3_CommentFailureCommentedOnPR ==
    \A h \in Handlers :
        ev[h].kind = "prcomment" =>
            \A j \in DOMAIN calls[h] :
                (calls[h][j].op \in CommentOps /\ ~calls[h][j].ok) =>
                    /\ \A k \in (j + 1)..Len(calls[h]) : calls[h][k].op = "CommentOnPR:sorry"
                    /\ pc[h] = "done" => Made(h, "CommentOnPR:sorry")

\* two handlers of deliveries of the same issue-opened event
SameIssue(g, h) ==
    /\ g # h
    /\ IssueRun(g) /\ IssueRun(h)
    /\ ev[g] = ev[h]

Actionable(h) ==
    IF ev[h].wf = "blog" THEN isBlogRequest(ev[h].title) ELSE isCodeRequest(ev[h].title)

\* the number of handlers among S with a successful call op
OkCount(S, op) == Cardinality({h \in S : Succeeded(h, op)})

\* C4 as stated: of two handlers of the same issue-opened event, exactly one gets
\* past CreateBranch (and at most one file and one pull request are created, and
\* the loser ends failed with the failure comment attempted).
C4_ExactlyOnePastCreateBranch ==
    \A g, h \in Handlers :
        (SameIssue(g, h) /\ Actionable(g) /\ pc[g] = "done" /\ pc[h] = "done") =>
            /\ OkCount({g, h}, "CreateRef") = 1
            /\ OkCount({g, h}, "CreateFile") <= 1
            /\ OkCount({g, h}, "CreatePullRequest") <= 1
            /\ \A l \in {g, h} :
                ~Succeeded(l, "CreateRef") => loc[l].err /\ Made(l, "CommentOnIssue")

\* C4 (amended): of two handlers of the same issue-opened event, at most one gets
\* past CreateBranch, and exactly one when both are done, the branch existed when
\* neither was delivered, and no call of either failed for another reason than
\* the existing ref; at most one file and one pull request are created; a
\* handler that did not get past CreateBranch ends failed and has attempted the
\* failure comment when it is done.
C4_AtMostOnePastCreateBranch ==
    \A g, h \in Handlers :
        (SameIssue(g, h) /\ Actionable(g)) =>
            /\ OkCount({g, h}, "CreateRef") <= 1
            /\ OkCount({g, h}, "CreateFile") <= 1
            /\ OkCount({g, h}, "CreatePullRequest") <= 1
            /\ (/\ pc[g] = "done" /\ pc[h] = "done"
                /\ NoFault(g) /\ NoFault(h)
                /\ ~loc[g].refAtEntry /\ ~loc[h].refAtEntry)
                => OkCount({g, h}, "CreateRef") = 1
            /\ \A l \in {g, h} :
                (pc[l] = "done" /\ ~Succeeded(l, "CreateRef"))
                    => loc[l].err /\ Made(l, "CommentOnIssue")

\* two handlers raced for the ref: the loser was delivered before the ref
\* existed, the host rejected its CreateRef, and it ended failed with the comment
C4_Witness ==
    \E g, h \in Handlers :
        /\ SameIssue(g, h)
        /\ NoFault(g) /\ NoFault(h)
        /\ ~loc[g].refAtEntry /\ pc[g] = "done" /\ Succeeded(g, "CreatePullRequest")
        /\ ~loc[h].refAtEntry /\ Rejected(h, "CreateRef")
        /\ pc[h] = "done" /\ loc[h].err /\ Made(h, "CommentOnIssue")

\* C5: the branch name depends on the workflow and the issue number only, so a
\* delivery that arrives when the branch of its issue exists never gets past
\* CreateBranch: the host rejects its CreateRef, it creates no file and no pull
\* request, and it ends failed with the failure comment attempted.
C5_RetryFailsAtCreateBranch ==
    \A h \in Handlers :
        (IssueRun(h) /\ Actionable(h)) =>
            /\ loc[h].branch \in {<<>>, branchNameOf(ev[h].wf, ev[h].number)}
            /\ loc[h].refAtEntry =>
                /\ ~Succeeded(h, "CreateRef")
                /\ ~Made(h, "CreateFile")
                /\ ~Made(h, "CreatePullRequest")
                /\ \A i \in DOMAIN calls[h] :
                    calls[h][i].op = "CreateRef" => ~calls[h][i].fault
                /\ pc[h] = "done" => loc[h].err /\ Made(h, "CommentOnIssue")

\* a retried delivery: the branch existed on arrival, the host rejected CreateRef
C5_Witness ==
    \E h \in Handlers :
        /\ IssueRun(h) /\ loc[h].refAtEntry
        /\ Rejected(h, "CreateRef")
        /\ pc[h] = "done" /\ Made(h, "CommentOnIssue")

\* the value of the first line of the text that starts with the field's name
FrontMatterValue(content, field) ==
    LET lines == Split(content, "\n")
        at == {i \in DOMAIN lines : HasPrefix(lines[i], field)}
    IN  IF at = {} THEN <<>>
        ELSE TrimSpace(TrimPrefix(lines[CHOOSE i \in at : \A j \in at : i <= j], field))

IsDraftOf(content) == FrontMatterValue(content, <<"i","s","_","d","r","a","f","t",":">>)

KeyOf(content) == FrontMatterValue(content, <<"k","e","y",":">>)

Stem(path) == TrimSuffix(Base(path), MdExt)

UnderDrafts(path) == HasPrefix(path, DraftsDir \o <<"/">>)

UnderPosts(path) == HasPrefix(path, PostsDir \o <<"/">>)

\* handler h runs handleDraftStatusChange and has listed the files of the PR
LifecycleRun(h) ==
    /\ CommentRun(h, "blog")
    /\ hasDraftStatusChange(ev[h].comment)
    /\ Succeeded(h, "ListPullRequestFiles")

\* the order and the gating of the three steps of a lifecycle transition of h
MoveOrder(h) ==
    \A j \in DOMAIN calls[h] :
        /\ calls[h][j].op = "CreateFile" =>
            /\ calls[h][j].path = loc[h].newFilename
            /\ OkBefore(h, j, "GetFileContent", ev[h].head)
        /\ calls[h][j].op = "DeleteFile" =>
            /\ calls[h][j].path = loc[h].filename
            /\ OkBefore(h, j, "CreateFile", ev[h].head)
        /\ calls[h][j].op = "CommentOnPR:moved" =>
            /\ OkBefore(h, j, "CreateFile", ev[h].head)
            /\ OkBefore(h, j, "DeleteFile", ev[h].head)

\* C6: for a publish directive on a PR whose blog file is <drafts>/foo.md, the
\* handler writes <posts>/foo.md with is_draft: false, then deletes the drafts
\* file, then posts the success comment; the delete comes only after the write
\* succeeded and the success comment only after both succeeded.
C6_PublishWritesThenDeletesThenComments ==
    \A h \in Handlers :
        (LifecycleRun(h) /\ loc[h].publish /\ UnderDrafts(loc[h].filename)) =>
            /\ MoveOrder(h)
            /\ Made(h, "CreateFile") =>
                /\ loc[h].newFilename = PathJoin(<<PostsDir, Base(loc[h].filename)>>)
                /\ IsDraftOf(loc[h].content) = <<"f","a","l","s","e">>

\* the order and the target path alone hold for every publish directive; the
\* written text says is_draft: false whenever the text read had an is_draft line
PublishOrderAndPath ==
    \A h \in Handlers :
        (LifecycleRun(h) /\ loc[h].publish /\ UnderDrafts(loc[h].filename)) =>
            /\ MoveOrder(h)
            /\ Made(h, "CreateFile") =>
                /\ loc[h].newFilename = PathJoin(<<PostsDir, Base(loc[h].filename)>>)
                /\ IsDraftOf(loc[h].current) # <<>>
                    => IsDraftOf(loc[h].content) = <<"f","a","l","s","e">>

\* a publish directive was carried out to the success comment
PublishCompleted ==
    \E h \in Handlers :
        /\ LifecycleRun(h) /\ loc[h].publish /\ UnderDrafts(loc[h].filename)
        /\ pc[h] = "done" /\ Succeeded(h, "CommentOnPR:moved")

\* the first blog file the PR held when the comment arrived
PostAtEntry(h) == FirstBlogPostFile(loc[h].prFilesAtEntry)

\* C7: the comment "Move back to draft" on a blog PR whose post is under posts/
\* moves it to drafts/: when the handler is done and no call failed, it has
\* written the drafts path and deleted the posts path.
C7_MoveBackToDraftMoves ==
    \A h \in Handlers :
        (/\ CommentRun(h, "blog")
         /\ ev[h].comment = MoveBackToDraft
         /\ PostAtEntry(h) # <<>> /\ UnderPosts(PostAtEntry(h)[1])
         /\ pc[h] = "done"
         /\ \A i \in DOMAIN calls[h] : calls[h][i].ok) =>
            /\ \E i \in DOMAIN calls[h] :
                /\ calls[h][i].op = "CreateFile" /\ calls[h][i].ok
                /\ calls[h][i].path = PathJoin(<<DraftsDir, Base(PostAtEntry(h)[1])>>)
            /\ \E i \in DOMAIN calls[h] :
                /\ calls[h][i].op = "DeleteFile" /\ calls[h][i].ok
                /\ calls[h][i].path = PostAtEntry(h)[1]

\* C8: a blog PR comment that contains a lifecycle phrase never leads to
\* ModifyBlogPost or UpdateFile, whatever else it contains and however the
\* transition ends.
C8_LifecycleNeverModifies ==
    \A h \in Handlers :
        (CommentRun(h, "blog") /\ hasDraftStatusChange(ev[h].comment)) =>
            /\ ~Made(h, "ModifyBlogPost")
            /\ ~Made(h, "UpdateFile")
            /\ pc[h] \notin {"blog_cc_list", "blog_cc_get", "blog_cc_modify",
                             "blog_cc_update", "blog_cc_failcomment", "blog_cc_rocket"}

\* a comment with a lifecycle phrase and change vocabulary was carried out as a
\* lifecycle transition
C8_Witness ==
    \E h \in Handlers :
        /\ CommentRun(h, "blog")
        /\ hasDraftStatusChange(ev[h].comment) /\ blogIsChangeRequest(ev[h].comment)
        /\ pc[h] = "done" /\ Succeeded(h, "CommentOnPR:moved")

\* the phrases of the claim C9
SaysPublish(comment) ==
    \/ Contains(ToLower(comment), <<"p","u","b","l","i","s","h">>)
    \/ Contains(ToLower(comment), <<"r","e","a","d","y"," ","t","o"," ","p","u","b","l","i","s","h">>)

SaysDraft(comment) ==
    \/ Contains(ToLower(comment), <<"m","o","v","e"," ","t","o"," ","d","r","a","f","t">>)
    \/ Contains(ToLower(comment), <<"m","a","k","e"," ","i","t"," ","a"," ","d","r","a","f","t">>)

\* the target of a lifecycle run is Published / Draft
TargetPublished(h) ==
    /\ loc[h].publish
    /\ loc[h].newFilename # <<>> => UnderPosts(loc[h].newFilename)

TargetDraft(h) ==
    /\ ~loc[h].publish
    /\ loc[h].newFilename # <<>> => UnderDrafts(loc[h].newFilename)

\* C9 as stated: every comment containing "publish" or "ready to publish" has
\* target Published and every comment containing "move to draft" or "make it a
\* draft" has target Draft.
C9_PhraseDecidesTarget ==
    \A h \in Handlers :
        LifecycleRun(h) =>
            /\ SaysPublish(ev[h].comment) => TargetPublished(h)
            /\ SaysDraft(ev[h].comment) => TargetDraft(h)

\* C9 (amended): every comment containing "publish" has target Published, also
\* when it contains a draft phrase; a comment containing "move to draft" or
\* "make it a draft" has target Draft only when it does not contain "publish".
C9_PublishWinsOverDraft ==
    \A h \in Handlers :
        LifecycleRun(h) =>
            /\ SaysPublish(ev[h].comment) => TargetPublished(h)
            /\ (SaysDraft(ev[h].comment) /\ ~SaysPublish(ev[h].comment)) => TargetDraft(h)

\* a comment with both kinds of phrase was carried out with target Published,
\* while another handler's comment with a draft phrase alone had target Draft
C9_Witness ==
    /\ \E h \in Handlers :
        /\ LifecycleRun(h)
        /\ SaysPublish(ev[h].comment) /\ SaysDraft(ev[h].comment)
        /\ loc[h].publish /\ UnderPosts(loc[h].newFilename)
    /\ \E h \in Handlers :
        /\ LifecycleRun(h)
        /\ ~SaysPublish(ev[h].comment) /\ SaysDraft(ev[h].comment)
        /\ ~loc[h].publish /\ UnderDrafts(loc[h].newFilename)

\* the blog files of the host
BlogFiles == {f \in files : f.repo = "blog" /\ IsBlogPostFile(f.path)}

\* C10: the path of every blog file is the one its front matter gives: under
\* drafts/ iff is_draft is true, under posts/ iff is_draft is false, and the
\* filename stem is the key.
C10_PathMatchesFrontMatter ==
    \A f \in BlogFiles :
        /\ UnderDrafts(f.path) <=> IsDraftOf(f.content) = <<"t","r","u","e">>
        /\ UnderPosts(f.path) <=> IsDraftOf(f.content) = <<"f","a","l","s","e">>
        /\ Stem(f.path) = KeyOf(f.content)

\* the last call of handler h after the step
LastCallNext(h) == calls'[h][Len(calls'[h])]

\* handler h carries out a transition to the state its file is in already
SameState(h) ==
    /\ LifecycleRun(h)
    /\ loc[h].newFilename # <<>>
    /\ \/ loc[h].publish /\ UnderPosts(loc[h].filename)
       \/ ~loc[h].publish /\ UnderDrafts(loc[h].filename)

\* C11: a lifecycle transition to the state the artifact is in already has the
\* same path for its write and its delete; the write of a file that is present
\* is rejected by the host and ends the handling, so no delete and no success
\* comment follows, nothing is moved, and the file is still at its path.
C11_SameStateTransitionKeepsFile ==
    [][\A h \in Handlers :
        SameState(h) =>
            /\ loc[h].newFilename = loc[h].filename
            /\ Rejected(h, "CreateFile")
                => ~Made(h, "DeleteFile") /\ ~Made(h, "CommentOnPR:moved")
            /\ (/\ pc[h] = "blog_ds_create" /\ pc'[h] # pc[h]
                /\ FilesAt("blog", ev[h].head, loc[h].filename) # {})
                => /\ files' = files
                   /\ pc'[h] = "done"
                   /\ LastCallNext(h).op = "CreateFile"
                   /\ LastCallNext(h).path = loc[h].filename
                   /\ ~LastCallNext(h).ok]_vars

\* a publish directive for a file under posts/ ended at the rejected write, and
\* the file is at its path
C11_Witness ==
    \E h \in Handlers :
        /\ SameState(h) /\ loc[h].publish
        /\ Rejected(h, "CreateFile") /\ pc[h] = "done"
        /\ FilesAt("blog", ev[h].head, loc[h].filename) # {}

\* C12: when the write at the new path has succeeded and the delete of the old
\* path fails, the handling ends there: the host's files are as before the
\* failed delete, both copies exist, the handler makes no further call (no
\* write, no delete, no success comment), and the error is returned to
\* handlePRComment, which logs it.
C12_FailedDeleteLeavesTwoCopies ==
    [][\A h \in Handlers :
        LifecycleRun(h) =>
            /\ Failed(h, "DeleteFile") =>
                /\ calls[h][Len(calls[h])].op = "DeleteFile"
                /\ Succeeded(h, "CreateFile")
                /\ ~Made(h, "CommentOnPR:moved")
                /\ pc[h] = "done" /\ loc[h].err
            /\ (pc[h] = "blog_ds_delete" /\ pc'[h] # pc[h] /\ ~LastCallNext(h).ok)
                => /\ files' = files
                   /\ FilesAt("blog", ev[h].head, loc[h].newFilename) # {}
                   /\ FilesAt("blog", ev[h].head, loc[h].filename) # {}
                   /\ pc'[h] = "done" /\ loc'[h].err]_vars

\* a publish whose write succeeded and whose delete failed: both copies exist
C12_Witness ==
    \E h \in Handlers :
        /\ LifecycleRun(h) /\ loc[h].publish
        /\ Succeeded(h, "CreateFile") /\ Failed(h, "DeleteFile")
        /\ pc[h] = "done" /\ loc[h].err
        /\ loc[h].newFilename # loc[h].filename
        /\ FilesAt("blog", ev[h].head, loc[h].newFilename) # {}
        /\ FilesAt("blog", ev[h].head, loc[h].filename) # {}

\* the calls a new-issue workflow makes
IssueOps ==
    {"ReactToIssue", "GenerateBlogPost", "GenerateCode", "GetRef", "CreateRef",
     "CreateFile", "CreatePullRequest", "CommentOnIssue"}

\* C13: a new-issue workflow has no rollback: its handler makes no delete or
\* other compensating call, none of its steps removes a branch, a file or a pull
\* request, the branch it created is there after a later step failed, and the
\* file it wrote is there after the pull request could not be created.
C13_NoRollback ==
    [][\A h \in Handlers :
        (IssueRun(h) /\ Actionable(h)) =>
            /\ \A i \in DOMAIN calls[h] : calls[h][i].op \in IssueOps
            /\ Succeeded(h, "CreateRef")
                => [repo |-> ev[h].wf, name |-> loc[h].branch] \in refs
            /\ (Succeeded(h, "CreateFile") /\ Failed(h, "CreatePullRequest"))
                => [repo |-> ev[h].wf, branch |-> loc[h].branch,
                    path |-> loc[h].filename, content |-> loc[h].content] \in files
            /\ (pc[h] \notin Free /\ pc'[h] # pc[h])
                => /\ refs \subseteq refs'
                   /\ files \subseteq files'
                   /\ prs \subseteq prs']_vars

\* the file write of a new issue failed after the branch was created: the
\* handler is done, the branch is there
C13_Witness ==
    \E h \in Handlers :
        /\ IssueRun(h) /\ pc[h] = "done" /\ loc[h].err
        /\ Succeeded(h, "CreateRef") /\ Failed(h, "CreateFile")
        /\ [repo |-> ev[h].wf, name |-> loc[h].branch] \in refs

\* the post of a blog request whose content is the local template
TemplatePost(h) ==
    LET request == ParseIssueForRequest(ev[h].title, ev[h].body)
    IN  [NewPost(request.Title, request.Topic, request.Tags, request.Draft)
            EXCEPT !.Content = generateTemplateContent(request)]

\* C14: a failed generation in the blog workflow is replaced by the local
\* template of the request's topic and the branch / file / pull request sequence
\* runs (to the pull request, when no later step fails); a failed generation in
\* the code workflow is followed by no GetRef, CreateRef, CreateFile or
\* CreatePullRequest call, and the failure comment on the issue is attempted.
C14_GenerationFailureAsymmetry ==
    \A h \in Handlers :
        IssueRun(h) =>
            /\ Failed(h, "GenerateBlogPost") =>
                /\ loc[h].content = GenerateMarkdown(TemplatePost(h))
                /\ Contains(loc[h].content,
                            ParseIssueForRequest(ev[h].title, ev[h].body).Topic)
                /\ pc[h] = "blog_getref" \/ Made(h, "GetRef")
                /\ (pc[h] = "done" /\ \A i \in DOMAIN calls[h] :
                        calls[h][i].op \in SequenceOps => calls[h][i].ok)
                    => Succeeded(h, "CreatePullRequest")
            /\ Failed(h, "GenerateCode") =>
                /\ \A i \in DOMAIN calls[h] : calls[h][i].op \notin SequenceOps
                /\ loc[h].err
                /\ pc[h] \in {"code_failcomment", "done"}
                /\ pc[h] = "done" => Made(h, "CommentOnIssue")

\* a blog request whose generation failed got its pull request, the file written
\* holding the template
C14_Witness ==
    \E h \in Handlers :
        /\ IssueRun(h) /\ pc[h] = "done"
        /\ Failed(h, "GenerateBlogPost") /\ Succeeded(h, "CreatePullRequest")
        /\ [repo |-> "blog", branch |-> loc[h].branch, path |-> loc[h].filename,
            content |-> GenerateMarkdown(TemplatePost(h))] \in files

\* handler g has a step that failed for a reason of its own
HasFault(g) == \E i \in DOMAIN calls[g] : calls[g][i].fault

\* C15 as stated: whenever another handler had a step failure, a new-issue
\* handler without a failure of its own, started when its branch did not exist,
\* ends as it would alone: with the pull request of its branch.
C15_FailureLeavesOutcomeOfOther ==
    \A g, h \in Handlers :
        (/\ g # h /\ HasFault(g) /\ pc[g] = "done"
         /\ IssueRun(h) /\ Actionable(h) /\ pc[h] = "done"
         /\ NoFault(h) /\ ~loc[h].refAtEntry)
            => [repo |-> ev[h].wf, head |-> branchNameOf(ev[h].wf, ev[h].number)] \in prs

\* C15 (amended): a step of one handler, failed or not, and its panic, leave the
\* position, the local variables, the call log, the event and the response of
\* every other handler as they were, and a step that failed leaves the branches,
\* files and pull requests of the host as they were: a handler is affected by
\* another only through what the other's successful calls changed on the host.
C15_FailureStaysInItsHandler ==
    [][\A g \in Handlers :
        (pc'[g] # pc[g] \/ calls'[g] # calls[g]) =>
            /\ \A h \in Handlers \ {g} :
                /\ pc'[h] = pc[h] /\ loc'[h] = loc[h] /\ calls'[h] = calls[h]
                /\ ev'[h] = ev[h] /\ resp'[h] = resp[h]
            /\ (Len(calls'[g]) = Len(calls[g]) + 1 /\ ~LastCallNext(g).ok)
                => /\ refs' = refs /\ files' = files /\ prs' = prs
            /\ pc'[g] = "panicked"
                => /\ refs' = refs /\ files' = files /\ prs' = prs]_vars

\* two comments on the same pull request: the delete of a lifecycle directive
\* failed, and the change request of the other handler updated the file
C15_Witness ==
    \E g, h \in Handlers :
        /\ g # h /\ ev[g].head = ev[h].head
        /\ LifecycleRun(g) /\ Failed(g, "DeleteFile") /\ HasFault(g)
        /\ CommentRun(h, "blog") /\ ~hasDraftStatusChange(ev[h].comment)
        /\ pc[h] = "done" /\ Succeeded(h, "UpdateFile")

\* handler h took a delivery whose payload the router could parse
Routed(h) == pc[h] # "idle" /\ ev[h].wellFormed

\* C16: every delivery the router parsed is routed to exactly one of the blog
\* workflow, the code workflow and unknown, whatever the length of its repository
\* name; the router never aborts, and a delivery routed to unknown ends with no
\* call made and the status 200.
C16_RoutingTotal ==
    \A h \in Handlers :
        Routed(h) =>
            /\ ev[h].wf \in {"blog", "code", "unknown"}
            /\ pc[h] # "panicked"
            /\ ev[h].wf = "unknown" => /\ calls[h] = <<>>
                                       /\ pc[h] = "done"
                                       /\ resp[h] = {StatusOK}

\* the repository name is the identifier or ends with it
Matches(name, identifier) == name = identifier \/ HasSuffix(name, identifier)

ClientErrors == {c \in 0..599 : c >= 400 /\ c < 500}

\* C18: a delivery whose payload is malformed or whose signature does not verify
\* is answered with a client-error status and no call is made for it, whatever
\* the repository its payload names.
C18_InvalidDeliveryRejected ==
    \A h \in Handlers :
        (pc[h] # "idle" /\ (~ev[h].wellFormed \/ ~ev[h].signed)) =>
            /\ calls[h] = <<>>
            /\ resp[h] # {}
            /\ resp[h] \subseteq ClientErrors

\* C19: an issue-opened event whose title is not actionable in the workflow it
\* was routed to ends at once: no call of any kind is made for it and the
\* response status is 200.
C19_NotActionableIssueIsNoOp ==
    \A h \in Handlers :
        (IssueRun(h) /\ ~Actionable(h)) =>
            /\ calls[h] = <<>>
            /\ pc[h] = "done"
            /\ resp[h] = {StatusOK}

\* a code title ended in the blog workflow, a blog title in the code workflow
C19_Witness ==
    \E g, h \in Handlers :
        /\ IssueRun(g) /\ ev[g].wf = "blog" /\ ev[g].title = TitleCode
        /\ IssueRun(h) /\ ev[h].wf = "code" /\ ev[h].title = TitleBlog
        /\ pc[g] = "done" /\ pc[h] = "done"
        /\ calls[g] = <<>> /\ calls[h] = <<>>
        /\ resp[g] = {StatusOK} /\ resp[h] = {StatusOK}

\* the review comment of handler h is not actionable in its workflow
NotActionableComment(h) ==
    \/ /\ CommentRun(h, "blog")
       /\ ~hasDraftStatusChange(ev[h].comment)
       /\ ~blogIsChangeRequest(ev[h].comment)
    \/ /\ CommentRun(h, "code")
       /\ ~codeIsChangeRequest(ev[h].comment)

\* C20: a review comment that is not actionable in its workflow ends with no
\* call made for it (no reaction, no comment, no file operation) and the
\* response status 200.
C20_NotActionableCommentIsNoOp ==
    \A h \in Handlers :
        NotActionableComment(h) =>
            /\ calls[h] = <<>>
            /\ pc[h] = "done"
            /\ resp[h] = {StatusOK}

\* the function named op was applied to the inputs drawn
Applied(op) == fn.op = op

\* the lines of a text
Lines(text) == Split(text, "\n")

\* the text has a line that, trimmed and in lower case, begins with the keyword
HasKeywordLine(text, keyword) ==
    \E i \in DOMAIN Lines(text) : HasPrefix(ToLower(TrimSpace(Lines(text)[i])), keyword)

\* the title begins with "Blog post:" in some letter case
BlogPrefixed(title) == HasPrefix(ToLower(title), <<"b","l","o","g"," ","p","o","s","t",":">>)

\* the text after the first n characters, trimmed
TrimmedAfter(text, n) == TrimSpace(SubSeq(text, n + 1, Len(text)))

\* C21: for a title that begins with "Blog post:" in any letter case and has no
\* code keyword, the blog classifier finds the issue actionable and the request
\* has the title without the prefix, trimmed, draft = true, and the tag
\* "ai-generated" (alone when the body has no tags line).
C21_BlogPrefixStripped ==
    (Applied("ParseIssueForRequest") /\ BlogPrefixed(fn.title) /\ ~isCodeRequest(fn.title)) =>
        /\ fn.out.actionable
        /\ fn.out.request.Title = TrimmedAfter(fn.title, 10)
        /\ fn.out.request.Draft
        /\ \E i \in DOMAIN fn.out.request.Tags : fn.out.request.Tags[i] = <<"a","i","-","g","e","n","e","r","a","t","e","d">>
        /\ ~HasKeywordLine(fn.body, <<"t","a","g","s",":">>)
            => fn.out.request.Tags = <<<<"a","i","-","g","e","n","e","r","a","t","e","d">>>>

\* the first line of the text that, trimmed and in lower case, begins with the
\* keyword
FirstKeywordLine(text, keyword) ==
    LET lines == Lines(text)
        i == CHOOSE k \in DOMAIN lines :
                /\ HasPrefix(ToLower(TrimSpace(lines[k])), keyword)
                /\ \A j \in 1..(k - 1) : ~HasPrefix(ToLower(TrimSpace(lines[j])), keyword)
    IN  lines[i]

\* the text of a line after its first colon
AfterColon(line) == SubSeq(line, IndexOf(line, ":") + 1, Len(line))

\* C22: when the body has a line that, trimmed and in lower case, begins with
\* "tags:", the tags of the request are "ai-generated" followed by the trimmed
\* comma-separated entries after the first colon of that line, in their order.
C22_TagsAfterColon ==
    (Applied("ParseIssueForRequest") /\ HasKeywordLine(fn.body, <<"t","a","g","s",":">>)) =>
        fn.out.request.Tags =
            <<<<"a","i","-","g","e","n","e","r","a","t","e","d">>>>
            \o TrimEach(Split(AfterColon(FirstKeywordLine(fn.body, <<"t","a","g","s",":">>)), ","))

\* the keywords that make a title actionable in the code workflow
CodeKeywords == {<<"c","o","d","e",":">>, <<"a","d","d"," ","f","e","a","t","u","r","e">>, <<"r","e","f","a","c","t","o","r">>, <<"i","m","p","l","e","m","e","n","t">>}

\* C23: in the code workflow, a title that begins with one of the keywords, in
\* any letter case, gives the request the title without that prefix, trimmed.
C23_KeywordPrefixStripped ==
    Applied("ParseIssueForCodeRequest") =>
        \A k \in CodeKeywords :
            HasPrefix(ToLower(fn.title), k)
                => /\ fn.out.actionable
                   /\ fn.out.request.Title = TrimmedAfter(fn.title, Len(k))

\* the lines of the body that, trimmed and in lower case, begin with "file:" or
\* "path:"
PathLines(body) ==
    {i \in DOMAIN Lines(body) :
        \/ HasPrefix(ToLower(TrimSpace(Lines(body)[i])), <<"f","i","l","e",":">>)
        \/ HasPrefix(ToLower(TrimSpace(Lines(body)[i])), <<"p","a","t","h",":">>)}

\* the trimmed text after the first colon of line i of the body
PathOfLine(body, i) == TrimSpace(AfterColon(Lines(body)[i]))

\* the last of the lines of PathLines
LastPathLine(body) == CHOOSE i \in PathLines(body) : \A j \in PathLines(body) : j <= i

\* C24 as stated: every line of the body that begins with "file:" or "path:" and
\* has a non-empty remainder gives the target path of the request, and
\* DetermineTargetPath returns that path.
C24_AnyPathLineDecides ==
    \A i \in PathLines(fn.body) :
        PathOfLine(fn.body, i) # <<>> =>
            /\ Applied("ParseIssueForCodeRequest")
                => fn.out.request.TargetPath = PathOfLine(fn.body, i)
            /\ Applied("DetermineTargetPath") => fn.out = PathOfLine(fn.body, i)

\* C24 (amended): the last line of the body that begins with "file:" or "path:"
\* gives the target path of the request, the trimmed text after its first colon
\* (none without such a line); when that text is not empty DetermineTargetPath
\* returns exactly it, whatever keywords the title has.
C24_LastPathLineDecides ==
    /\ Applied("ParseIssueForCodeRequest") =>
        fn.out.request.TargetPath =
            IF PathLines(fn.body) = {} THEN <<>>
            ELSE PathOfLine(fn.body, LastPathLine(fn.body))
    /\ (/\ Applied("DetermineTargetPath")
        /\ PathLines(fn.body) # {}
        /\ PathOfLine(fn.body, LastPathLine(fn.body)) # <<>>)
            => fn.out = PathOfLine(fn.body, LastPathLine(fn.body))

\* scenario 3: the path of the body is returned although the title has "client"
C24_Witness ==
    /\ Applied("DetermineTargetPath")
    /\ fn.title = <<"C","o","d","e",":"," ","A","d","d"," ","r","a","t","e"," ","l","i","m","i","t","i","n","g"," ","t","o"," ","A","I"," ","c","l","i","e","n","t">>
    /\ fn.body = <<"F","i","l","e",":"," ","p","k","g","/","b","o","t","-","a","i","/","c","l","i","e","n","t",".","g","o">>
    /\ fn.out = <<"p","k","g","/","b","o","t","-","a","i","/","c","l","i","e","n","t",".","g","o">>

\* the body gives the request no target path
NoExplicitPath(body) ==
    PathLines(body) = {} \/ PathOfLine(body, LastPathLine(body)) = <<>>

\* C25: without an explicit target path, DetermineTargetPath returns
\* pkg/bot-code/handlers.go for a title with "handler", else
\* pkg/bot-code/client.go for one with "client", else pkg/bot-code/code_test.go
\* for one with "test" (in any letter case), and otherwise the file name made of
\* the request's title, with its extension, under pkg/bot-code/.
C25_KeywordDefaults ==
    (Applied("DetermineTargetPath") /\ NoExplicitPath(fn.body)) =>
        LET title == ToLower(fn.title)
        IN  fn.out =
                IF Contains(title, <<"h","a","n","d","l","e","r">>) THEN <<"p","k","g","/","b","o","t","-","c","o","d","e","/","h","a","n","d","l","e","r","s",".","g","o">>
                ELSE IF Contains(title, <<"c","l","i","e","n","t">>) THEN <<"p","k","g","/","b","o","t","-","c","o","d","e","/","c","l","i","e","n","t",".","g","o">>
                ELSE IF Contains(title, <<"t","e","s","t">>) THEN <<"p","k","g","/","b","o","t","-","c","o","d","e","/","c","o","d","e","_","t","e","s","t",".","g","o">>
                ELSE <<"p","k","g","/","b","o","t","-","c","o","d","e","/">>
                     \o generateFilename(ParseIssueForCodeRequest(fn.title, fn.body).Title)

\* a title with "client" and "test" got the client path
C25_Witness ==
    /\ Applied("DetermineTargetPath")
    /\ fn.title = <<"C","O","D","E",":"," ","T","e","s","t"," ","C","l","i","e","n","t">>
    /\ fn.body = BodyPlain
    /\ fn.out = <<"p","k","g","/","b","o","t","-","c","o","d","e","/","c","l","i","e","n","t",".","g","o">>

\* the characters a slug keeps: lower-case letters, digits, the hyphen
SlugChars == LowerLetters \cup {"0", "1", "2", "3", "4", "5", "6", "7", "8", "9", "-"}

\* the number of positions of the text that hold the character
NumberOf(text, c) == Cardinality({i \in DOMAIN text : text[i] = c})

\* C26: the key of a blog post is its title in lower case, each space replaced
\* by "-", with exactly the characters outside [a-z0-9-] removed, and the path of
\* the post is <drafts-dir>/<key>.md for a draft and <posts-dir>/<key>.md
\* otherwise.
C26_KeyIsSlugOfTitle ==
    Applied("NewPost") =>
        /\ fn.out.key = SelectSeq(ReplaceAll(ToLower(fn.title), " ", "-"),
                                  LAMBDA r : r \in SlugChars)
        /\ fn.out.path = (IF fn.isDraft THEN DraftsDir ELSE PostsDir)
                         \o <<"/">> \o fn.out.key \o MdExt

\* C27: generateFilename gives the same name on a second call; its stem has only
\* lower-case letters, digits and the separator, and has the separator once for
\* each space of the title (the separator being "_", which the code puts for a
\* space, or "-", which the filter keeps).
C27_FilenameWellFormed ==
    Applied("generateFilename") =>
        LET stem == TrimSuffix(fn.out[1], <<".","g","o">>)
        IN  /\ fn.out[1] = fn.out[2]
            /\ HasSuffix(fn.out[1], <<".","g","o">>)
            /\ \E sep \in {"_", "-"} :
                /\ \A i \in DOMAIN stem :
                    stem[i] \in (SlugChars \ {"-"}) \cup {sep}
                /\ NumberOf(stem, sep) >= NumberOf(fn.title, " ")

\* the front-matter fields of a text, in the order they appear: the text before
\* the first colon of each line between the two "---" lines that has a colon and
\* does not begin with a space
RECURSIVE FieldsOf(_)
FieldsOf(lines) ==
    IF lines = <<>> \/ Head(lines) = <<"-","-","-">> THEN <<>>
    ELSE IF IndexOf(Head(lines), ":") > 1 /\ Head(Head(lines)) # " "
         THEN <<SubSeq(Head(lines), 1, IndexOf(Head(lines), ":") - 1)>>
              \o FieldsOf(Tail(lines))
         ELSE FieldsOf(Tail(lines))

\* C28: updateDraftStatus of GenerateMarkdown(p) to p's own flag gives the same
\* text; to the other flag it gives GenerateMarkdown of p with the flag flipped.
\* The text begins with the front matter in the order created_at, is_draft,
\* key, language, summary, tags, title, type and ends with a blank line and the
\* body (the order is read off the text for a body of one line: the summary
\* holds the body, whose further lines would stand between the fields).
C28_RewriteRoundTrip ==
    Applied("GenerateMarkdown") =>
        LET p == PostOf(fn.title, fn.body, fn.isDraft)
        IN  /\ fn.out.text = GenerateMarkdown(p)
            /\ fn.out.same = fn.out.text
            /\ fn.out.flipped = GenerateMarkdown([p EXCEPT !.IsDraft = ~fn.isDraft])
            /\ fn.out.flipped # fn.out.text
            /\ HasSuffix(fn.out.text, <<"-","-","-","\n","\n">> \o p.Content)
            /\ (Len(Lines(fn.body)) = 1 /\ ~HasKeywordLine(fn.body, <<"t","a","g","s",":">>))
                => FieldsOf(Tail(Lines(fn.out.text)))
                    = <<<<"c","r","e","a","t","e","d","_","a","t">>, <<"i","s","_","d","r","a","f","t">>, <<"k","e","y">>, <<"l","a","n","g","u","a","g","e">>,
                        <<"s","u","m","m","a","r","y">>, <<"t","a","g","s">>, <<"t","i","t","l","e">>, <<"t","y","p","e">>>>

\* a post whose body has a line of its own that begins with "is_draft:" went
\* through both rewrites: that line is as it was
C28_Witness ==
    /\ Applied("GenerateMarkdown")
    /\ fn.body = <<"G","o","\n","i","s","_","d","r","a","f","t",":"," ","n","o">>
    /\ HasSuffix(fn.out.flipped, <<"-","-","-","\n","\n","G","o","\n","i","s","_","d","r","a","f","t",":"," ","n","o">>)
    /\ fn.out.same = fn.out.text
    /\ fn.out.flipped # fn.out.text

\* C29: when one of the values main reads from the environment (the token, the
\* backend key, the owner, the two repository names, the webhook secret) is
\* empty, the process ends before a route is registered or the listener started.
C29_StartupFatalWhenValueMissing ==
    boot.env # EnvNames =>
        /\ boot.pc \in {"main", "fatal"}
        /\ boot.routes = {}

\* the copies of the post on the head branch of a blog pull request
CopiesOn(head) ==
    {f \in files : f.repo = "blog" /\ f.branch = head /\ IsBlogPostFile(f.path)}

\* the post is on the branch twice, under drafts/ and under posts/
TwoCopies(head) ==
    \E d, p \in CopiesOn(head) :
        UnderDrafts(d.path) /\ UnderPosts(p.path) /\ Stem(d.path) = Stem(p.path)

\* the two copies are what a transition left behind: no handler is between its
\* write and its delete on the branch
LeftBehind(head) ==
    /\ TwoCopies(head)
    /\ \A h \in Handlers : ~(pc[h] = "blog_ds_delete" /\ ev[h].head = head)

\* handler h handled a lifecycle comment that arrived when the two copies were
\* there, left by the failed delete of another handling, and none of its own
\* calls failed for a reason outside the handling
HandledFromTwoCopies(h) ==
    /\ LifecycleRun(h) /\ pc[h] = "done" /\ NoFault(h)
    /\ \E g \in Handlers \ {h} :
        /\ pc[g] = "done" /\ ev[g].head = ev[h].head
        /\ Succeeded(g, "CreateFile") /\ Failed(g, "DeleteFile")
    /\ \E i, j \in DOMAIN loc[h].prFilesAtEntry :
        /\ UnderDrafts(loc[h].prFilesAtEntry[i])
        /\ UnderPosts(loc[h].prFilesAtEntry[j])

\* C30: a lifecycle comment handled from the two-copy state, none of its calls
\* failing for a reason of its own, ends with exactly one copy of the post, at
\* the path of the requested state.
C30_TwoCopiesRecovered ==
    \A h \in Handlers :
        (HandledFromTwoCopies(h) /\ loc[h].filename # <<>>) =>
            /\ Cardinality(CopiesOn(ev[h].head)) = 1
            /\ \A f \in CopiesOn(ev[h].head) :
                IF loc[h].publish THEN UnderPosts(f.path) ELSE UnderDrafts(f.path)

\* what the handlers do instead: the two-copy state a failed delete leaves is
\* never left. After every step of every handler both copies are still on the
\* branch and no handler is between a write and a delete there (the write of a
\* later lifecycle comment is rejected, the path being taken).
TwoCopiesStay ==
    [][\A q \in prs : (q.repo = "blog" /\ LeftBehind(q.head)) => LeftBehind(q.head)']_vars

\* a later lifecycle comment was handled from the two-copy state: its write was
\* rejected and both copies are there
TwoCopiesRetried ==
    \E h \in Handlers :
        /\ HandledFromTwoCopies(h)
        /\ Rejected(h, "CreateFile")
        /\ LeftBehind(ev[h].head)

\* the three event kinds the endpoint accepts
AcceptedKinds == {"issue", "issuecomment", "prcomment"}

\* C31: the router takes the repository full name from the payload of each of
\* the three accepted event kinds, so a parsed event of any of them whose
\* repository matches the blog identifier is handed to the blog workflow.
C31_NameTakenForEveryKind ==
    \A h \in Handlers :
        (/\ Routed(h) /\ ev[h].kind \in AcceptedKinds
         /\ Matches(ev[h].repoName, repoWebsite)) =>
            ev[h].wf = "blog"

\* handler h posted the success acknowledgement of a change request
Rocketed(h) == Made(h, "ReactToPRComment:rocket")

\* C32: the rocket reaction to a change-request comment, in either workflow, is
\* posted only if an UpdateFile call of the handling of that comment succeeded;
\* it is not posted when no file of the pull request matches the pattern.
C32_RocketOnlyAfterUpdate ==
    \A h \in Handlers : Rocketed(h) => Succeeded(h, "UpdateFile")

\* what holds of the handlers: the rocket is posted only when the handling made
\* no failing call after the first reaction, and after an UpdateFile that
\* succeeded whenever a file of the pull request matched
RocketAfterUpdateWhenMatched ==
    \A h \in Handlers :
        Rocketed(h) =>
            /\ \A i \in 2..Len(calls[h]) :
                calls[h][i].op # "ReactToPRComment:rocket" => calls[h][i].ok
            /\ loc[h].filename # <<>> => Succeeded(h, "UpdateFile")

\* handler h handles a change request and is at the label
ChangeAt(h, labels) == ev[h].kind = "prcomment" /\ pc[h] \in labels

\* h has read the file and its sha and has not yet sent its update
HoldsSha(h) == ChangeAt(h, {"blog_cc_modify", "blog_cc_update", "code_cm_modify", "code_cm_update"})

\* this step is the UpdateFile of h, and the host accepted it
Updates(h) ==
    /\ ChangeAt(h, {"blog_cc_update", "code_cm_update"})
    /\ pc'[h] \in {"blog_cc_rocket", "code_cm_rocket"}

\* g and h handle change requests on the same file from the same sha
SameBase(g, h) ==
    /\ g # h
    /\ ev[g].wf = ev[h].wf /\ ev[g].head = ev[h].head
    /\ loc[g].filename = loc[h].filename
    /\ loc[g].sha = loc[h].sha

\* the sha g holds is not the sha of the file any more: its update is rejected
Stale(g) == FileWithSha(g, loc[g].filename, loc[g].sha) = {}

\* C33 as stated: of two concurrent change-request handlings that hold the same
\* sha of the same file, at most one update succeeds: once the update of one is
\* accepted, the sha of the other is stale.
C33_AtMostOneOfSameSha ==
    [][\A g, h \in Handlers :
        (Updates(h) /\ HoldsSha(g) /\ SameBase(g, h)) => Stale(g)']_vars

\* C33 (amended): an update is accepted only when the file still has the content
\* its handler read, so no accepted update replaces a content it was not made
\* from; once the update of one of two concurrent handlings that hold the same
\* sha is accepted, the sha of the other is stale unless the update wrote back
\* the content it had read; and a handling whose update the host rejected ends
\* with the failure comment and without the rocket.
C33_NoLostUpdate ==
    /\ [][/\ \A h \in Handlers :
                Updates(h) =>
                    \A f \in FilesAt(ev[h].wf, ev[h].head, loc[h].filename) :
                        f.content = loc[h].current
          /\ \A g, h \in Handlers :
                (Updates(h) /\ HoldsSha(g) /\ SameBase(g, h)) =>
                    Stale(g)' \/ loc[h].content = loc[h].current]_vars
    /\ [](\A h \in Handlers :
            (Rejected(h, "UpdateFile") /\ pc[h] = "done") =>
                (Made(h, "CommentOnPR:sorry") /\ ~Rocketed(h)))

\* two handlings read the same sha of the same file; the update of one was
\* accepted, the update of the other was rejected and it ended with the comment
C33_Witness ==
    \E g, h \in Handlers :
        /\ SameBase(g, h) /\ loc[h].sha # <<>>
        /\ pc[g] = "done" /\ pc[h] = "done"
        /\ Succeeded(h, "UpdateFile") /\ Rocketed(h)
        /\ Rejected(g, "UpdateFile") /\ Made(g, "CommentOnPR:sorry")

\* the file pattern of the workflow of handler h
MatchesPattern(h, path) ==
    IF ev[h].wf = "blog" THEN IsBlogPostFile(path) ELSE IsGoFile(path)

\* the number of calls op in the log of handler h
CallCount(h, op) == Cardinality({i \in DOMAIN calls[h] : calls[h][i].op = op})

\* this step is the ListPullRequestFiles of h and a file of the list matched
PicksFile(h) ==
    /\ ChangeAt(h, {"blog_cc_list", "blog_ds_list", "code_cm_list"})
    /\ pc'[h] \in {"blog_cc_get", "blog_ds_get", "code_cm_get"}

\* this step is a call of h while it handles a review comment
CommentStep(h) ==
    /\ ev[h].kind = "prcomment" /\ pc[h] \notin Free
    /\ calls'[h] # calls[h]

\* the files the step adds, removes or replaces
Touched == (files \ files') \cup (files' \ files)

\* the mutating calls of handler h are at most one UpdateFile for a change
\* request and at most one CreateFile and one DeleteFile for a lifecycle
\* directive, on the file it picked (CreateFile on the path it moves it to)
OneFileOfThePR(h) ==
    /\ CallCount(h, "UpdateFile") <= 1
    /\ CallCount(h, "CreateFile") <= 1
    /\ CallCount(h, "DeleteFile") <= 1
    /\ Made(h, "UpdateFile") => ~Made(h, "CreateFile") /\ ~Made(h, "DeleteFile")
    /\ \A i \in DOMAIN calls[h] :
        /\ calls[h][i].op \in {"UpdateFile", "DeleteFile"} =>
            /\ calls[h][i].path = loc[h].filename
            /\ calls[h][i].branch = ev[h].head
        /\ calls[h][i].op = "CreateFile" =>
            /\ calls[h][i].path = MovedFilename(loc[h].filename, loc[h].publish)
            /\ calls[h][i].branch = ev[h].head

\* C34: the handling of one review comment mutates at most one file of the pull
\* request, the first of the file list that matches the pattern of the workflow:
\* at most one UpdateFile for a change request, at most one CreateFile and one
\* DeleteFile for a lifecycle directive, and every other file is left as it is.
C34_AtMostOneFileMutated ==
    /\ [][\A h \in Handlers :
            /\ PicksFile(h) =>
                LET list == PullRequestFiles(ev[h].wf, ev[h].head)
                IN  \E i \in DOMAIN list :
                        /\ MatchesPattern(h, list[i])
                        /\ \A j \in 1..(i - 1) : ~MatchesPattern(h, list[j])
                        /\ loc'[h].filename = list[i]
            /\ CommentStep(h) =>
                \A f \in Touched :
                    /\ f.repo = ev[h].wf /\ f.branch = ev[h].head
                    /\ f.path \in {loc[h].filename,
                                   MovedFilename(loc[h].filename, loc[h].publish)}]_vars
    /\ [](\A h \in Handlers : ev[h].kind = "prcomment" => OneFileOfThePR(h))

\* a change request was handled on a pull request with two files that match:
\* the first was updated and the second has the content it had
C34_Witness ==
    \E h \in Handlers :
        /\ CommentRun(h, "blog") /\ pc[h] = "done" /\ Succeeded(h, "UpdateFile")
        /\ Len(loc[h].prFilesAtEntry) = 2
        /\ \A i \in 1..2 : IsBlogPostFile(loc[h].prFilesAtEntry[i])
        /\ loc[h].filename = loc[h].prFilesAtEntry[1]
        /\ \E f \in FilesAt("blog", ev[h].head, loc[h].prFilesAtEntry[2]) :
            f.content # loc[h].content

\* C35: a validly signed, parseable delivery routed to a workflow ends with
\* exactly one response status, 200, whatever the outcome of its handling
\* (success, not actionable, step failure), issues without a body included;
\* nothing is written before the handler returns.
C35_RoutedDeliveryAnswers200 ==
    \A h \in Handlers :
        Handled(h) =>
            /\ pc[h] \in Free \ {"idle"} => pc[h] = "done" /\ resp[h] = {StatusOK}
            /\ pc[h] \notin Free => resp[h] = {}

\* what holds of the handlers: a delivery whose issue has a body, or that is a
\* review comment, ends with the status 200 alone
AnsweredWhenBodyPresent ==
    \A h \in Handlers :
        (Handled(h) /\ ev[h].hasBody) =>
            /\ pc[h] \in Free \ {"idle"} => pc[h] = "done" /\ resp[h] = {StatusOK}
            /\ pc[h] \notin Free => resp[h] = {}

\* the +1 reactions that acknowledge an issue and a review comment
Reactions == {"ReactToIssue", "ReactToPRComment"}

\* this step is the +1 reaction of handler h to the delivery it takes
Reacts(h) ==
    /\ Ready(h) /\ delivered' = delivered + 1
    /\ Len(calls'[h]) = 1 /\ calls'[h][1].op \in Reactions

\* every call of h after the reaction succeeded
RestOk(h) == calls[h] # <<>> /\ \A i \in 2..Len(calls[h]) : calls[h][i].ok

\* the handling of h ended as a handling without failure ends: the pull request
\* for an issue, the update and the rocket for a change request on a file, the
\* move and its comment for a lifecycle directive on a file
FullOutcome(h) ==
    /\ IssueRun(h) =>
        /\ Succeeded(h, "CreatePullRequest")
        /\ [repo |-> ev[h].wf, head |-> loc[h].branch] \in prs
    /\ (ev[h].kind = "prcomment" /\ ~NotActionableComment(h)) =>
        IF ev[h].wf = "blog" /\ hasDraftStatusChange(ev[h].comment)
        THEN loc[h].filename # <<>> =>
                /\ Succeeded(h, "CreateFile") /\ Succeeded(h, "DeleteFile")
                /\ Made(h, "CommentOnPR:moved")
        ELSE /\ Rocketed(h)
             /\ loc[h].filename # <<>> => Succeeded(h, "UpdateFile")

\* C36: the +1 reaction is no gating step: it is the first call of a handling,
\* made before the generation and before every branch, file and pull request
\* call, and when it fails the handling goes on as when it succeeds: to the same
\* next step with the same local state, and, its later calls succeeding, to the
\* same final outcome.
C36_ReactionNotGating ==
    /\ [][\A h \in Handlers :
            Reacts(h) =>
                /\ pc'[h] = "done" <=> NotActionableComment(h)'
                /\ loc'[h] = EntryLoc(ev'[h])
                /\ files' = files /\ refs' = refs /\ prs' = prs]_vars
    /\ [](\A h \in Handlers :
            (Handled(h) /\ calls[h] # <<>>) =>
                /\ calls[h][1].op \in Reactions
                /\ \A i \in 2..Len(calls[h]) : calls[h][i].op \notin Reactions
                /\ (pc[h] = "done" /\ RestOk(h)) => FullOutcome(h))

\* the reaction to an issue failed and the pull request was created all the
\* same; the reaction to a change request failed and the file was updated
C36_Witness ==
    \E g, h \in Handlers :
        /\ IssueRun(g) /\ pc[g] = "done" /\ Failed(g, "ReactToIssue")
        /\ Succeeded(g, "CreatePullRequest")
        /\ CommentRun(h, ev[h].wf) /\ pc[h] = "done" /\ Rocketed(h)
        /\ Succeeded(h, "UpdateFile")

\* C37: with several "file:" / "path:" lines in the body of a code request the
\* target path is taken from the last of them, whereas of several "tags:" lines
\* of a blog request only the first gives entries; both results are the same
\* for every title.
C37_LastPathFirstTags ==
    /\ Applied("ParseIssueForCodeRequest") =>
        /\ PathLines(fn.body) # {} =>
            fn.out.request.TargetPath = PathOfLine(fn.body, LastPathLine(fn.body))
        /\ \A t \in FnTitles :
            ParseIssueForCodeRequest(t, fn.body).TargetPath = fn.out.request.TargetPath
    /\ Applied("ParseIssueForRequest") =>
        /\ HasKeywordLine(fn.body, <<"t","a","g","s",":">>) =>
            LET first == FirstKeywordLine(fn.body, <<"t","a","g","s",":">>)
            IN  /\ fn.out.request.Tags = ParseIssueForRequest(fn.title, first).Tags
                /\ Len(fn.out.request.Tags) = 1 + Len(Split(first, ","))
        /\ \A t \in FnTitles :
            ParseIssueForRequest(t, fn.body).Tags = fn.out.request.Tags

\* the body of the README's optional block, File: before Path:: the path of the
\* Path: line is taken
C37_Witness ==
    /\ Applied("ParseIssueForCodeRequest")
    /\ fn.body = <<"F","i","l","e",":"," ","a",".","g","o","\n","P","a","t","h",":"," ","b",".","g","o">>
    /\ fn.out.request.TargetPath = <<"b",".","g","o">>

====
